---- MODULE Spec2Model ----
(***************************************************************************)
(* WiseSpeak-AI RAG core: the document chunker, the embedding clients, the *)
(* provider retry wrappers, the multi-namespace retrieval of RAGSystem and *)
(* the augmented retrieval of RAGEngine.                                   *)
(*                                                                         *)
(* Text is a sequence of one-character strings over Chars.  Python string  *)
(* operations (strip, slicing with negative indices, re.split) are         *)
(* operators that compute what Python computes.                            *)
(***************************************************************************)
EXTENDS Integers, Sequences, FiniteSets, TLC

(***************************************************************************)
(* Bounds of the model.                                                    *)
(***************************************************************************)
MaxTextLen == 4
MaxChunkSize == 3
MaxOverlap == 2
MaxChunks == 5

(***************************************************************************)
(* Characters: a lower-case letter, an upper-case letter, a sentence       *)
(* ending, a space and a newline.                                          *)
(***************************************************************************)
Chars == {"a", "B", ".", " ", "\n"}
Whitespace == {" ", "\n"}
SentenceEnd == {"."}
UpperCase == {"B"}

Texts == UNION {[1..n -> Chars] : n \in 0..MaxTextLen}

Min(a, b) == IF a <= b THEN a ELSE b
Max(a, b) == IF a >= b THEN a ELSE b

\* str.strip(): whitespace removed at both ends
RECURSIVE LStrip(_)
LStrip(s) ==
    IF s = <<>> THEN <<>>
    ELSE IF Head(s) \in Whitespace THEN LStrip(Tail(s)) ELSE s

RECURSIVE RStrip(_)
RStrip(s) ==
    IF s = <<>> THEN <<>>
    ELSE IF s[Len(s)] \in Whitespace THEN RStrip(SubSeq(s, 1, Len(s) - 1)) ELSE s

Strip(s) == RStrip(LStrip(s))

\* `not text or not text.strip()`
IsBlank(s) == Strip(s) = <<>>

\* Python s[a:b]: a negative index counts from the end, both are clamped
PyIndex(s, i) == IF i < 0 THEN Max(0, Len(s) + i) ELSE Min(i, Len(s))
Slice(s, a, b) ==
    LET lo == PyIndex(s, a)
        hi == PyIndex(s, b)
    IN IF lo < hi THEN SubSeq(s, lo + 1, hi) ELSE <<>>

\* first position >= p (1-based) that is past the text or not whitespace
RECURSIVE RunEnd(_, _)
RunEnd(s, p) ==
    IF p > Len(s) \/ s[p] \notin Whitespace THEN p ELSE RunEnd(s, p + 1)

\* a match of (?<=[.!?])\s+(?=[A-Z...]) starts at p
IsSentenceBreak(s, p) ==
    /\ p > 1
    /\ p <= Len(s)
    /\ s[p - 1] \in SentenceEnd
    /\ s[p] \in Whitespace
    /\ RunEnd(s, p) <= Len(s)
    /\ s[RunEnd(s, p)] \in UpperCase

\* re.split(sentence_endings, text): the pieces between the matches
RECURSIVE SplitSentencesFrom(_, _, _)
SplitSentencesFrom(s, from, p) ==
    IF p > Len(s) THEN << SubSeq(s, from, Len(s)) >>
    ELSE IF IsSentenceBreak(s, p)
         THEN << SubSeq(s, from, p - 1) >>
                 \o SplitSentencesFrom(s, RunEnd(s, p), RunEnd(s, p))
         ELSE SplitSentencesFrom(s, from, p + 1)

SplitSentences(s) == SplitSentencesFrom(s, 1, 1)

\* the last newline of the whitespace run that starts at p (0 when none after p)
LastNewline(s, p) ==
    LET e == RunEnd(s, p)
        nl == {r \in (p + 1)..(e - 1) : s[r] = "\n"}
    IN IF nl = {} THEN 0 ELSE CHOOSE r \in nl : \A q \in nl : q <= r

\* a match of \n\s*\n starts at p
IsParagraphBreak(s, p) ==
    /\ p <= Len(s)
    /\ s[p] = "\n"
    /\ LastNewline(s, p) > 0

\* re.split(r'\n\s*\n', text)
RECURSIVE SplitParagraphsFrom(_, _, _)
SplitParagraphsFrom(s, from, p) ==
    IF p > Len(s) THEN << SubSeq(s, from, Len(s)) >>
    ELSE IF IsParagraphBreak(s, p)
         THEN << SubSeq(s, from, p - 1) >>
                 \o SplitParagraphsFrom(s, LastNewline(s, p) + 1, LastNewline(s, p) + 1)
         ELSE SplitParagraphsFrom(s, from, p + 1)

SplitParagraphs(s) == SplitParagraphsFrom(s, 1, 1)

VARIABLES
    text,                 \* the text given to the chunker
    chunk_size,           \* DocumentChunker.chunk_size / chunk_document's chunk_size
    chunk_overlap,        \* DocumentChunker.chunk_overlap / chunk_document's chunk_overlap
    chunking_strategy,    \* "character" | "sentence" | "paragraph" | "chunk_document"
    cpc,                  \* where the chunker is: idle, one of the loops, done
    chunks,               \* the chunk texts emitted so far, in order
    ctext,                \* _chunk_by_character: the stripped text being cut
    start,                \* _chunk_by_character / chunk_document: window start
    cret,                 \* who called _chunk_by_character
    processed_sentences,  \* _chunk_by_sentence: packed sentences still to place
    s_current_chunk,      \* _chunk_by_sentence: current_chunk
    sret,                 \* who called _chunk_by_sentence
    paragraphs,           \* _chunk_by_paragraph: paragraphs still to place
    p_current_chunk       \* _chunk_by_paragraph: current_chunk

chunkerVars == << text, chunk_size, chunk_overlap, chunking_strategy, cpc, chunks,
                  ctext, start, cret, processed_sentences, s_current_chunk, sret,
                  paragraphs, p_current_chunk >>

VARIABLES
    epc,                  \* embedding call: idle, batch (inside the retry wrapper), returned, raised
    e_func,               \* which embedding function was called
    e_texts,              \* its texts argument
    e_attempt,            \* attempts made so far by the retry wrapper
    e_waits,              \* seconds slept between the attempts, in order
    e_provider_failed,    \* whether the last provider call raised
    e_result              \* the list returned to the caller

embedVars == << epc, e_func, e_texts, e_attempt, e_waits, e_provider_failed, e_result >>

VARIABLES
    store,                \* vector store: namespace -> its chunks, nearest to the query first
    conversation_history, \* RAGSystem.conversation_history
    qpc,                  \* RAGSystem.query: idle, retrieve_single, retrieve_multi, chat, respond, done
    q_budget,             \* queries the behaviour may still start
    q_text,               \* query_text
    q_use_history,        \* use_history
    q_namespace,          \* query_namespace (the namespace argument, or self.namespace)
    q_namespaces,         \* the namespaces argument (<<>> when None or empty)
    q_pending,            \* namespaces the for loop has still to search
    q_store_log,          \* the vector-store queries made: <<namespace, outcome>>
    all_relevant_docs,    \* candidates collected over the namespaces
    relevant_docs,        \* candidates used for the context
    q_prompt,             \* messages sent to chat_completion
    q_attempt,            \* chat_completion: attempts made
    q_waits,              \* chat_completion: seconds slept between attempts
    q_chat_failed,        \* chat_completion: every attempt raised
    q_response,           \* what chat_completion returned
    q_result              \* what query returned

ragVars == << store, conversation_history, qpc, q_budget, q_text, q_use_history,
              q_namespace, q_namespaces, q_pending, q_store_log, all_relevant_docs,
              relevant_docs, q_prompt, q_attempt, q_waits, q_chat_failed, q_response,
              q_result >>

VARIABLES
    gpc,                  \* RAGEngine: idle, expand, retrieve, rerank, compress, generate, returned, raised
    g_entry,              \* the RAGEngine method that was called
    g_query,              \* query
    g_reranking,          \* reranking
    g_query_expansion,    \* query_expansion
    g_context_compression,\* context_compression
    g_n_results,          \* n_results (0 for None)
    g_filter_metadata,    \* filter_metadata
    g_generated,          \* _expand_query: what generate_text returned (None until it returns)
    g_expanded_query,     \* expanded_query
    g_search_calls,       \* the calls of vector_db_service.search, with their arguments
    g_docs,               \* retrieved_docs / results / the contexts argument
    g_contexts,           \* contexts handed to generate_with_context / returned by _compress_context
    g_k,                  \* _compress_context: position of the for loop
    g_compressed_contexts,\* _compress_context: compressed_contexts
    g_compress_returns,   \* _compress_context: per context handled, what generate_text returned (its length), None when not called
    g_attempt,            \* generate_text: attempts made by the retry wrapper
    g_waits,              \* generate_text: seconds slept between the attempts
    g_failed,             \* the passes whose generate_text call ended in an exception
    g_error,              \* the exception that left the called method, "" when none
    g_result,             \* the dict returned by enhanced_rag_query / rag_query
    g_collection          \* the documents the Chroma collection of VectorDBService holds

engineVars == << gpc, g_entry, g_query, g_reranking, g_query_expansion,
                 g_context_compression, g_n_results, g_filter_metadata, g_generated,
                 g_expanded_query, g_search_calls, g_docs, g_contexts, g_k,
                 g_compressed_contexts, g_compress_returns, g_attempt, g_waits, g_failed, g_error, g_result,
                 g_collection >>

VARIABLES
    dpc,                  \* chunk_document / chunk_document_with_overlap: idle, pages, returned
    document,             \* the document argument: << page_num, text >> in the dict's order
    overlap_pages,        \* overlap_pages (FALSE: chunk_document does the work)
    page_numbers,         \* the page numbers in the order the loop takes them
    d_i,                  \* position of the page loop in page_numbers, from 1
    chunked_document      \* chunked_document["chunks"]

pagesVars == << dpc, document, overlap_pages, page_numbers, d_i, chunked_document >>

VARIABLES
    lpc,                  \* language functions: idle, returned
    l_func,               \* the function called
    supported_languages,  \* self.supported_languages (only membership is used)
    default_language,     \* LanguageProcessor: self.default_language
    l_code,               \* language_code argument, or what detect(text) reported
    l_result              \* the value returned

langVars == << lpc, l_func, supported_languages, default_language, l_code, l_result >>

VARIABLES
    lecture_collection,   \* the Chroma collection TextEmbedder adds to: stored chunks
    process_pdf_results   \* what the process_pdf calls returned, in call order

lectureVars == << lecture_collection, process_pdf_results >>

VARIABLES
    ppc,                  \* EmbeddingPipeline.process_chunks: idle, batch, done
    p_entry,              \* the method called: process_chunks or process_document
    p_chunks,             \* chunks, the document id already written into them
    batch_size,           \* self.batch_size
    p_i,                  \* i of `for i in range(0, total_chunks, batch_size)`
    add_documents_log,    \* what add_documents returned, one entry per call
    pipeline_collection,  \* ids and document ids the collection holds
    p_result              \* the value returned: "none" until then, "True", "False"

pipelineVars == << ppc, p_entry, p_chunks, batch_size, p_i, add_documents_log,
                   pipeline_collection, p_result >>

vars == << chunkerVars, embedVars, ragVars, engineVars, pagesVars, langVars, lectureVars,
          pipelineVars >>

otherThanChunker == << embedVars, ragVars, engineVars, pagesVars, langVars, lectureVars,
    pipelineVars >>
otherThanEmbed == << chunkerVars, ragVars, engineVars, pagesVars, langVars, lectureVars,
    pipelineVars >>
otherThanRag == << chunkerVars, embedVars, engineVars, pagesVars, langVars, lectureVars,
    pipelineVars >>
otherThanEngine == << chunkerVars, embedVars, ragVars, pagesVars, langVars, lectureVars,
    pipelineVars >>
otherThanChunkerAndPages == << embedVars, ragVars, engineVars, langVars, lectureVars,
    pipelineVars >>
otherThanLang == << chunkerVars, embedVars, ragVars, engineVars, pagesVars, lectureVars,
    pipelineVars >>
otherThanLecture == << chunkerVars, embedVars, ragVars, engineVars, pagesVars, langVars,
    pipelineVars >>
otherThanPipeline == << chunkerVars, embedVars, ragVars, engineVars, pagesVars, langVars,
    lectureVars >>

(***************************************************************************)
(* DocumentChunker                                                         *)
(***************************************************************************)

\* _chunk_by_sentence, first loop: short sentences are packed together
RECURSIVE PackSentences(_, _, _)
PackSentences(sentences, current_sentence, size) ==
    IF sentences = <<>>
    THEN IF current_sentence # <<>> THEN << current_sentence >> ELSE <<>>
    ELSE LET sentence == Head(sentences) IN
         IF IsBlank(sentence)
         THEN PackSentences(Tail(sentences), current_sentence, size)
         ELSE IF Len(current_sentence) + Len(sentence) < size
              THEN PackSentences(Tail(sentences),
                                 IF current_sentence # <<>>
                                 THEN current_sentence \o << " " >> \o sentence
                                 ELSE sentence,
                                 size)
              ELSE (IF current_sentence # <<>> THEN << current_sentence >> ELSE <<>>)
                   \o PackSentences(Tail(sentences), sentence, size)

\* entry of _chunk_by_character(t), called by `ret`
EnterCharacter(t, ret) ==
    /\ ctext' = Strip(t)
    /\ start' = 0
    /\ cret' = ret
    /\ cpc' = "character"

\* entry of _chunk_by_sentence(t), called by `ret`
EnterSentence(t, size, ret) ==
    /\ processed_sentences' = PackSentences(SplitSentences(t), <<>>, size)
    /\ s_current_chunk' = <<>>
    /\ sret' = ret
    /\ cpc' = "sentence"

\* entry of _chunk_by_paragraph(t)
EnterParagraph(t) ==
    /\ paragraphs' = SplitParagraphs(t)
    /\ p_current_chunk' = <<>>
    /\ cpc' = "paragraph"

\* the window end of one pass of the character loop
CharEnd == Min(start + chunk_size, Len(ctext))

\* the next window start: end - overlap, or end when that is no progress past end
NextStart(end, overlap) ==
    IF end - overlap >= end THEN end ELSE end - overlap

\* chunk_text(text) of a DocumentChunker(chunk_size, chunk_overlap, strategy)
ChunkText(t, size, overlap, strategy) ==
    /\ cpc = "idle"
    /\ text' = t
    /\ chunk_size' = size
    /\ chunk_overlap' = overlap
    /\ chunking_strategy' = strategy
    /\ chunks' = <<>>
    /\ IF IsBlank(t)
       THEN /\ cpc' = "done"
            /\ UNCHANGED << ctext, start, cret, processed_sentences, s_current_chunk,
                            sret, paragraphs, p_current_chunk >>
       ELSE IF strategy = "character"
       THEN /\ EnterCharacter(t, "done")
            /\ UNCHANGED << processed_sentences, s_current_chunk, sret,
                            paragraphs, p_current_chunk >>
       ELSE IF strategy = "paragraph"
       THEN /\ EnterParagraph(t)
            /\ UNCHANGED << ctext, start, cret, processed_sentences,
                            s_current_chunk, sret >>
       ELSE /\ EnterSentence(t, size, "done")
            /\ UNCHANGED << ctext, start, cret, paragraphs, p_current_chunk >>
    /\ UNCHANGED otherThanChunker

\* one pass of the while loop of _chunk_by_character
CharStep ==
    /\ cpc = "character"
    /\ start < Len(ctext)
    /\ Len(chunks) < MaxChunks
    /\ chunks' = Append(chunks, Slice(ctext, start, CharEnd))
    /\ start' = NextStart(CharEnd, chunk_overlap)
    /\ UNCHANGED << text, chunk_size, chunk_overlap, chunking_strategy, cpc, ctext,
                    cret, processed_sentences, s_current_chunk, sret, paragraphs,
                    p_current_chunk >>
    /\ UNCHANGED otherThanChunker

\* the while loop of _chunk_by_character ends: return to the caller
CharReturn ==
    /\ cpc = "character"
    /\ ~(start < Len(ctext))
    /\ cpc' = cret
    /\ UNCHANGED << text, chunk_size, chunk_overlap, chunking_strategy, chunks, ctext,
                    start, cret, processed_sentences, s_current_chunk, sret,
                    paragraphs, p_current_chunk >>
    /\ UNCHANGED otherThanChunker

\* mutation of SentenceOverflows: the joining space is not counted
SentenceOverflows_NoSeparator(current_chunk, sentence, size) ==
    Len(current_chunk) + Len(sentence) > size

\* `len(current_chunk) + len(sentence) + 1 > self.chunk_size`
SentenceOverflows(current_chunk, sentence, size) ==
    Len(current_chunk) + Len(sentence) + 1 > size

\* `len(current_chunk) + len(paragraph) + 2 > self.chunk_size`
ParagraphOverflows(current_chunk, paragraph, size) ==
    Len(current_chunk) + Len(paragraph) + 2 > size

\* one pass of the second loop of _chunk_by_sentence
SentenceStep ==
    /\ cpc = "sentence"
    /\ processed_sentences # <<>>
    /\ LET sentence == Head(processed_sentences) IN
       /\ processed_sentences' = Tail(processed_sentences)
       /\ IF Len(sentence) > chunk_size
          THEN /\ chunks' = IF s_current_chunk # <<>>
                            THEN Append(chunks, s_current_chunk) ELSE chunks
               /\ s_current_chunk' = <<>>
               /\ EnterCharacter(sentence, "sentence")
          ELSE /\ IF SentenceOverflows(s_current_chunk, sentence, chunk_size)
                  THEN /\ chunks' = Append(chunks, s_current_chunk)
                       /\ s_current_chunk' = sentence
                  ELSE /\ chunks' = chunks
                       /\ s_current_chunk' = IF s_current_chunk # <<>>
                                             THEN s_current_chunk \o << " " >> \o sentence
                                             ELSE sentence
               /\ UNCHANGED << cpc, ctext, start, cret >>
    /\ UNCHANGED << text, chunk_size, chunk_overlap, chunking_strategy, sret,
                    paragraphs, p_current_chunk >>
    /\ UNCHANGED otherThanChunker

\* _chunk_by_sentence ends: the last chunk is added, return to the caller
SentenceReturn ==
    /\ cpc = "sentence"
    /\ processed_sentences = <<>>
    /\ chunks' = IF s_current_chunk # <<>> THEN Append(chunks, s_current_chunk) ELSE chunks
    /\ s_current_chunk' = <<>>
    /\ cpc' = sret
    /\ UNCHANGED << text, chunk_size, chunk_overlap, chunking_strategy, ctext, start,
                    cret, processed_sentences, sret, paragraphs, p_current_chunk >>
    /\ UNCHANGED otherThanChunker

\* one pass of the loop of _chunk_by_paragraph
ParagraphStep ==
    /\ cpc = "paragraph"
    /\ paragraphs # <<>>
    /\ LET paragraph == Strip(Head(paragraphs)) IN
       /\ paragraphs' = Tail(paragraphs)
       /\ IF paragraph = <<>>
          THEN UNCHANGED << chunks, p_current_chunk, cpc, processed_sentences,
                            s_current_chunk, sret >>
          ELSE IF Len(paragraph) > chunk_size
          THEN /\ chunks' = IF p_current_chunk # <<>>
                            THEN Append(chunks, p_current_chunk) ELSE chunks
               /\ p_current_chunk' = <<>>
               /\ EnterSentence(paragraph, chunk_size, "paragraph")
          ELSE /\ IF ParagraphOverflows(p_current_chunk, paragraph, chunk_size)
                  THEN /\ chunks' = Append(chunks, p_current_chunk)
                       /\ p_current_chunk' = paragraph
                  ELSE /\ chunks' = chunks
                       /\ p_current_chunk' = IF p_current_chunk # <<>>
                                             THEN p_current_chunk \o << "\n", "\n" >> \o paragraph
                                             ELSE paragraph
               /\ UNCHANGED << cpc, processed_sentences, s_current_chunk, sret >>
    /\ UNCHANGED << text, chunk_size, chunk_overlap, chunking_strategy, ctext, start, cret >>
    /\ UNCHANGED otherThanChunker

\* _chunk_by_paragraph ends: the last chunk is added
ParagraphReturn ==
    /\ cpc = "paragraph"
    /\ paragraphs = <<>>
    /\ chunks' = IF p_current_chunk # <<>> THEN Append(chunks, p_current_chunk) ELSE chunks
    /\ p_current_chunk' = <<>>
    /\ cpc' = "done"
    /\ UNCHANGED << text, chunk_size, chunk_overlap, chunking_strategy, ctext, start,
                    cret, processed_sentences, s_current_chunk, sret, paragraphs >>
    /\ UNCHANGED otherThanChunker

(***************************************************************************)
(* chunk_document of vector_db/embeddings.py: fixed windows over the raw   *)
(* text, the start advancing by chunk_size - chunk_overlap.                *)
(***************************************************************************)
ChunkDocument(t, size, overlap) ==
    /\ cpc = "idle"
    /\ text' = t
    /\ chunk_size' = size
    /\ chunk_overlap' = overlap
    /\ chunking_strategy' = "chunk_document"
    /\ chunks' = <<>>
    /\ start' = 0
    /\ cpc' = IF t = <<>> THEN "done" ELSE "chunk_document"
    /\ UNCHANGED << ctext, cret, processed_sentences, s_current_chunk, sret,
                    paragraphs, p_current_chunk >>
    /\ UNCHANGED otherThanChunker

ChunkDocumentStep ==
    /\ cpc = "chunk_document"
    /\ start < Len(text)
    /\ Len(chunks) < MaxChunks
    /\ chunks' = Append(chunks, Slice(text, start, Min(start + chunk_size, Len(text))))
    /\ start' = start + chunk_size - chunk_overlap
    /\ UNCHANGED << text, chunk_size, chunk_overlap, chunking_strategy, cpc, ctext,
                    cret, processed_sentences, s_current_chunk, sret, paragraphs,
                    p_current_chunk >>
    /\ UNCHANGED otherThanChunker

ChunkDocumentReturn ==
    /\ cpc = "chunk_document"
    /\ ~(start < Len(text))
    /\ cpc' = "done"
    /\ UNCHANGED << text, chunk_size, chunk_overlap, chunking_strategy, chunks, ctext,
                    start, cret, processed_sentences, s_current_chunk, sret,
                    paragraphs, p_current_chunk >>
    /\ UNCHANGED otherThanChunker

(***************************************************************************)
(* DocumentChunker.chunk_document and chunk_document_with_overlap: the     *)
(* page loop around chunk_text.                                            *)
(***************************************************************************)
MaxPages == 2

\* page texts: empty, blank, shorter than an overlap, ending a sentence,
\* with white space at either end, starting a paragraph
PageTexts ==
    { << >>, << " " >>, << "a" >>, << "B" >>, << "a", "." >>, << "a", " " >>,
      << " ", "a" >>, << "a", "B" >>, << "\n", "B" >> }

\* a document: pages numbered 1..n, inserted in ascending or descending order
Documents ==
    UNION { { [i \in 1..n |-> << IF ascending THEN i ELSE n + 1 - i, f[i] >>] :
                f \in [1..n -> PageTexts], ascending \in BOOLEAN } :
            n \in 0..MaxPages }

\* document.keys(), in the dict's order
Keys(doc) == [i \in 1..Len(doc) |-> doc[i][1]]

\* mutation of PageText: every page is cut from the first entry's text
PageText_First(doc, page_num) == doc[1][2]

\* document[page_num]
PageText(doc, page_num) == doc[CHOOSE i \in 1..Len(doc) : doc[i][1] = page_num][2]

RECURSIVE InsertAscending(_, _)
InsertAscending(k, sorted) ==
    IF sorted = <<>> THEN << k >>
    ELSE IF Head(sorted) <= k
         THEN << Head(sorted) >> \o InsertAscending(k, Tail(sorted))
         ELSE << k >> \o sorted

\* sorted(document.keys())
RECURSIVE Sorted(_)
Sorted(keys) ==
    IF keys = <<>> THEN <<>>
    ELSE InsertAscending(keys[Len(keys)], Sorted(SubSeq(keys, 1, Len(keys) - 1)))

\* prev_text[-overlap_size:] if overlap_size > 0 else "", overlap_size being
\* min(self.chunk_overlap, len(prev_text))
OverlapText(prev_text, overlap) ==
    LET overlap_size == Min(overlap, Len(prev_text)) IN
    IF overlap_size > 0
    THEN SubSeq(prev_text, Len(prev_text) - overlap_size + 1, Len(prev_text))
    ELSE <<>>

\* the text handed to chunk_text for the page at position i of the loop
PageInput(doc, numbers, i, overlap, with_overlap) ==
    IF with_overlap /\ i > 1
    THEN OverlapText(PageText(doc, numbers[i - 1]), overlap)
         \o << "\n" >> \o PageText(doc, numbers[i])
    ELSE PageText(doc, numbers[i])

\* mutation of ChunkData: every chunk of a later page is flagged
ChunkData_AllFlagged(page_num, j, chunk, with_overlap, i) ==
    [chunk_id |-> << page_num, j + 1 >>, page_number |-> page_num, chunk_index |-> j,
     text |-> chunk, has_spans_pages |-> with_overlap,
     spans_pages |-> with_overlap /\ i > 0]

\* chunk_data of the chunk at index j (from 0) of the page at loop index i
\* (from 0); chunk_document writes no spans_pages key
ChunkData(page_num, j, chunk, with_overlap, i) ==
    [chunk_id |-> << page_num, j + 1 >>, page_number |-> page_num, chunk_index |-> j,
     text |-> chunk, has_spans_pages |-> with_overlap,
     spans_pages |-> with_overlap /\ j = 0 /\ i > 0]

\* chunk_text(t) as the page loop calls it
EnterChunkText(t) ==
    /\ text' = t
    /\ chunks' = <<>>
    /\ IF IsBlank(t)
       THEN /\ cpc' = "done"
            /\ UNCHANGED << ctext, start, cret, processed_sentences, s_current_chunk,
                            sret, paragraphs, p_current_chunk >>
       ELSE IF chunking_strategy' = "character"
       THEN /\ EnterCharacter(t, "done")
            /\ UNCHANGED << processed_sentences, s_current_chunk, sret,
                            paragraphs, p_current_chunk >>
       ELSE IF chunking_strategy' = "paragraph"
       THEN /\ EnterParagraph(t)
            /\ UNCHANGED << ctext, start, cret, processed_sentences,
                            s_current_chunk, sret >>
       ELSE /\ EnterSentence(t, chunk_size', "done")
            /\ UNCHANGED << ctext, start, cret, paragraphs, p_current_chunk >>

\* chunk_document_with_overlap(document, overlap_pages) of a
\* DocumentChunker(chunk_size, chunk_overlap, strategy); with overlap_pages
\* False it is chunk_document(document), which takes the pages in dict order
ChunkDocumentWithOverlap(doc, with_overlap, size, overlap, strategy) ==
    /\ cpc = "idle"
    /\ dpc = "idle"
    /\ document' = doc
    /\ overlap_pages' = with_overlap
    /\ chunk_size' = size
    /\ chunk_overlap' = overlap
    /\ chunking_strategy' = strategy
    /\ chunked_document' = <<>>
    /\ page_numbers' = IF with_overlap THEN Sorted(Keys(doc)) ELSE Keys(doc)
    /\ d_i' = 1
    /\ IF doc = <<>>
       THEN /\ dpc' = "returned"
            /\ UNCHANGED << text, cpc, chunks, ctext, start, cret, processed_sentences,
                            s_current_chunk, sret, paragraphs, p_current_chunk >>
       ELSE /\ dpc' = "pages"
            /\ EnterChunkText(PageInput(doc, page_numbers', 1, overlap, with_overlap))
    /\ UNCHANGED otherThanChunkerAndPages

\* chunk_text has returned the chunks of the page: they are added with their
\* metadata, and the loop goes to the next page or ends
PageDone ==
    /\ dpc = "pages"
    /\ cpc = "done"
    /\ chunked_document' = chunked_document \o
           [j \in 1..Len(chunks) |->
               ChunkData(page_numbers[d_i], j - 1, chunks[j], overlap_pages, d_i - 1)]
    /\ UNCHANGED << document, overlap_pages, page_numbers, chunk_size, chunk_overlap,
                    chunking_strategy >>
    /\ IF d_i < Len(page_numbers)
       THEN /\ d_i' = d_i + 1
            /\ UNCHANGED dpc
            /\ EnterChunkText(PageInput(document, page_numbers, d_i + 1,
                                        chunk_overlap, overlap_pages))
       ELSE /\ dpc' = "returned"
            /\ UNCHANGED << d_i, text, cpc, chunks, ctext, start, cret,
                            processed_sentences, s_current_chunk, sret, paragraphs,
                            p_current_chunk >>
    /\ UNCHANGED otherThanChunkerAndPages

(***************************************************************************)
(* Embedding clients: OpenAIService.get_embeddings_batch (under the retry  *)
(* decorator) and TextEmbedder.get_embeddings.                             *)
(***************************************************************************)
MaxBatch == 3

\* texts given to the embedding functions: empty, blank, two non-blank ones
EmbedTexts == { <<>>, << " " >>, << "a" >>, << "B" >> }
EmbedBatches == UNION {[1..n -> EmbedTexts] : n \in 0..MaxBatch}

\* what an attempt of a provider call does: succeeds, raises an error the retry
\* decorator retries (APIError, ConnectionError), or raises any other exception
ProviderOutcomes == {"ok", "api_error", "other_error"}

\* the provider's embedding of a text (never the empty vector)
Embedding(t) == << "vec" >> \o t

\* [text for text in texts if text.strip()]
RECURSIVE NonBlank(_)
NonBlank(texts) ==
    IF texts = <<>> THEN <<>>
    ELSE IF IsBlank(Head(texts)) THEN NonBlank(Tail(texts))
         ELSE << Head(texts) >> \o NonBlank(Tail(texts))

\* response.data of embeddings.create(input=inputs): one item per input, in order
EmbeddingResponse(inputs) ==
    [i \in 1..Len(inputs) |-> [index |-> i - 1, embedding |-> Embedding(inputs[i])]]

\* the loop of get_embeddings_batch that puts the response back in input order
RECURSIVE AlignFrom(_, _, _, _)
AlignFrom(texts, i, data, embeddings) ==
    IF i > Len(texts) THEN embeddings
    ELSE IF ~IsBlank(texts[i])
         THEN LET found == {j \in 1..Len(data) : data[j].index = Len(embeddings)} IN
              IF found = {}
              THEN AlignFrom(texts, i + 1, data, embeddings)
              ELSE AlignFrom(texts, i + 1, data,
                             Append(embeddings,
                                    data[CHOOSE j \in found : \A k \in found : j <= k].embedding))
         ELSE AlignFrom(texts, i + 1, data, Append(embeddings, <<>>))

RECURSIVE Pow2(_)
Pow2(n) == IF n <= 0 THEN 1 ELSE 2 * Pow2(n - 1)

\* @retry(stop=stop_after_attempt(5), wait=wait_exponential(multiplier=1, min=4, max=60))
StopAfterAttempt == 5
WaitMin == 4
WaitMax == 60
WaitExponential(attempt) == Max(WaitMin, Min(Pow2(attempt - 1), WaitMax))

\* OpenAIService.get_embeddings_batch(texts) is called
GetEmbeddingsBatch(texts) ==
    /\ epc = "idle"
    /\ epc' = "batch"
    /\ e_func' = "get_embeddings_batch"
    /\ e_texts' = texts
    /\ e_attempt' = 0
    /\ e_waits' = <<>>
    /\ e_provider_failed' = FALSE
    /\ e_result' = <<>>
    /\ UNCHANGED otherThanEmbed

\* one attempt of the body of get_embeddings_batch under the retry decorator
BatchAttempt(outcome) ==
    /\ epc = "batch"
    /\ e_attempt' = e_attempt + 1
    /\ LET filtered_texts == NonBlank(e_texts) IN
       IF filtered_texts = <<>>
       THEN /\ outcome = "ok"          \* no provider call is made
            /\ epc' = "returned"
            /\ e_result' = <<>>
            /\ UNCHANGED << e_waits, e_provider_failed >>
       ELSE IF outcome = "ok"
       THEN /\ epc' = "returned"
            /\ e_result' = AlignFrom(e_texts, 1, EmbeddingResponse(filtered_texts), <<>>)
            /\ e_provider_failed' = FALSE
            /\ UNCHANGED e_waits
       ELSE /\ e_provider_failed' = TRUE
            /\ e_result' = <<>>
            /\ IF outcome = "api_error" /\ e_attempt + 1 < StopAfterAttempt
               THEN /\ epc' = "batch"
                    /\ e_waits' = Append(e_waits, WaitExponential(e_attempt + 1))
               ELSE /\ epc' = "raised"
                    /\ UNCHANGED e_waits
    /\ UNCHANGED << e_func, e_texts >>
    /\ UNCHANGED otherThanEmbed

\* TextEmbedder.get_embeddings(texts): one provider call, every exception caught
GetEmbeddings(texts, outcome) ==
    /\ epc = "idle"
    /\ epc' = "returned"
    /\ e_func' = "get_embeddings"
    /\ e_texts' = texts
    /\ e_attempt' = IF NonBlank(texts) = <<>> THEN 0 ELSE 1
    /\ e_waits' = <<>>
    /\ IF NonBlank(texts) = <<>>
       THEN /\ outcome = "ok"          \* no provider call is made
            /\ e_result' = <<>>
            /\ e_provider_failed' = FALSE
       ELSE IF outcome = "ok"
       THEN /\ e_result' = [i \in 1..Len(NonBlank(texts)) |-> Embedding(NonBlank(texts)[i])]
            /\ e_provider_failed' = FALSE
       ELSE /\ e_result' = <<>>
            /\ e_provider_failed' = TRUE
    /\ UNCHANGED otherThanEmbed

(***************************************************************************)
(* RAGSystem.query (ai/rag.py) over TextEmbedder.query_similar and         *)
(* OpenAIClient.chat_completion.                                           *)
(***************************************************************************)
MaxPerNamespace == 3

\* namespaces are non-empty identifiers ("default", "lecture_<file>")
Namespaces == {"default", "lecture_1"}

\* the namespaces arguments tried: None, and lists as text_query builds them
NamespaceLists == { <<>>, << "lecture_1" >>, << "lecture_1", "default" >>,
                    << "default", "default" >> }

\* distance of a stored chunk to the query
Distances == 0..2

QueryTexts == { << "a" >>, << "B" >> }

\* the chunks a namespace may hold: ids 1..n, nearest first
NamespaceContents(ns) ==
    { c \in UNION {[1..n -> Distances] : n \in 0..MaxPerNamespace} :
        \A i \in 1..(Len(c) - 1) : c[i] <= c[i + 1] }

StoredDocs(ns, c) ==
    [i \in 1..Len(c) |-> [id |-> << ns, i >>, namespace |-> ns, distance |-> c[i]]]

Take(s, n) == SubSeq(s, 1, Min(n, Len(s)))

Range(s) == {s[i] : i \in 1..Len(s)}

\* ChromaClient.query(query_text, n_results, where): the n nearest chunks that
\* match the namespace filter; an exception inside is caught and gives no rows
ChromaQuery(n_results, where, outcome) ==
    IF outcome = "error" THEN <<>>
    ELSE Take(store[where], n_results)

\* TextEmbedder.query_similar: rows to documents, score = 1 - distance
QuerySimilar(n_results, namespace, outcome) ==
    LET rows == ChromaQuery(n_results, namespace, outcome) IN
    [i \in 1..Len(rows) |->
        [id |-> rows[i].id, namespace |-> rows[i].namespace, score |-> 1 - rows[i].distance]]

\* sorted(..., key=score, reverse=True): stable, highest score first
RECURSIVE InsertByScore(_, _)
InsertByScore(doc, sorted) ==
    IF sorted = <<>> THEN << doc >>
    ELSE IF Head(sorted).score >= doc.score
         THEN << Head(sorted) >> \o InsertByScore(doc, Tail(sorted))
         ELSE << doc >> \o sorted

RECURSIVE SortByScoreDesc(_)
SortByScoreDesc(docs) ==
    IF docs = <<>> THEN <<>>
    ELSE InsertByScore(docs[Len(docs)], SortByScoreDesc(SubSeq(docs, 1, Len(docs) - 1)))

\* n_results=5 of the query_similar calls, [:5] of the merge
NResults == 5
TopK == 5

\* mutation of MergeCandidates: the merged list is cut without sorting
MergeCandidates_Unsorted(docs) == Take(docs, TopK)

\* sorted(all_relevant_docs, key=score, reverse=True)[:5]
MergeCandidates(docs) == Take(SortByScoreDesc(docs), TopK)

\* conversation_history[-3:]
HistoryWindow == 3

\* mutation of LastN: the oldest n entries
LastN_Oldest(s, n) == SubSeq(s, 1, Min(n, Len(s)))

LastN(s, n) == SubSeq(s, Max(1, Len(s) - n + 1), Len(s))

\* the messages of the prompt: system, recent history, the question with its context
Prompt(history, use_history, query_text, docs) ==
    << [role |-> "system", content |-> << "system_prompt" >>] >>
    \o (IF use_history /\ history # <<>> THEN LastN(history, HistoryWindow) ELSE <<>>)
    \o << [role |-> "user", content |-> << "question", query_text, docs >>] >>

NoResult == [kind |-> "none"]

\* RAGSystem("default").query(query_text, use_history=..., namespace=..., namespaces=...)
Query(query_text, use_history, namespace, namespaces) ==
    /\ qpc \in {"idle", "done"}
    /\ q_budget > 0
    /\ q_budget' = q_budget - 1
    /\ q_text' = query_text
    /\ q_use_history' = use_history
    /\ q_namespace' = namespace
    /\ q_namespaces' = namespaces
    /\ q_pending' = namespaces
    /\ q_store_log' = <<>>
    /\ all_relevant_docs' = <<>>
    /\ relevant_docs' = <<>>
    /\ q_prompt' = <<>>
    /\ q_attempt' = 0
    /\ q_waits' = <<>>
    /\ q_chat_failed' = FALSE
    /\ q_response' = NoResult
    /\ q_result' = NoResult
    /\ qpc' = IF namespaces # <<>> THEN "retrieve_multi" ELSE "retrieve_single"
    /\ UNCHANGED << store, conversation_history >>
    /\ UNCHANGED otherThanRag

\* one pass of `for ns in namespaces`
RetrieveNamespace(outcome) ==
    /\ qpc = "retrieve_multi"
    /\ q_pending # <<>>
    /\ LET ns == Head(q_pending)
           docs == QuerySimilar(NResults, ns, outcome) IN
       /\ q_store_log' = Append(q_store_log, << ns, outcome >>)
       /\ all_relevant_docs' = IF docs # <<>> THEN all_relevant_docs \o docs
                                              ELSE all_relevant_docs
    /\ q_pending' = Tail(q_pending)
    /\ UNCHANGED << store, conversation_history, qpc, q_budget, q_text, q_use_history,
                    q_namespace, q_namespaces, relevant_docs, q_prompt, q_attempt,
                    q_waits, q_chat_failed, q_response, q_result >>
    /\ UNCHANGED otherThanRag

\* the loop is over: merge, build the context and the prompt
MergeNamespaces ==
    /\ qpc = "retrieve_multi"
    /\ q_pending = <<>>
    /\ relevant_docs' = MergeCandidates(all_relevant_docs)
    /\ q_prompt' = Prompt(conversation_history, q_use_history, q_text,
                          MergeCandidates(all_relevant_docs))
    /\ qpc' = "chat"
    /\ UNCHANGED << store, conversation_history, q_budget, q_text, q_use_history,
                    q_namespace, q_namespaces, q_pending, q_store_log, all_relevant_docs,
                    q_attempt, q_waits, q_chat_failed, q_response, q_result >>
    /\ UNCHANGED otherThanRag

\* the single-namespace search, then the context and the prompt
RetrieveSingle(outcome) ==
    /\ qpc = "retrieve_single"
    /\ q_store_log' = Append(q_store_log, << q_namespace, outcome >>)
    /\ relevant_docs' = QuerySimilar(NResults, q_namespace, outcome)
    /\ q_prompt' = Prompt(conversation_history, q_use_history, q_text,
                          QuerySimilar(NResults, q_namespace, outcome))
    /\ qpc' = "chat"
    /\ UNCHANGED << store, conversation_history, q_budget, q_text, q_use_history,
                    q_namespace, q_namespaces, q_pending, all_relevant_docs,
                    q_attempt, q_waits, q_chat_failed, q_response, q_result >>
    /\ UNCHANGED otherThanRag

\* chat_completion(retry_count=3): one pass of `for attempt in range(retry_count)`
RetryCount == 3

ChatAttempt(outcome) ==
    /\ qpc = "chat"
    /\ q_attempt < RetryCount
    /\ q_attempt' = q_attempt + 1
    /\ IF outcome = "ok"
       THEN /\ q_response' = [kind |-> "result", text |-> "answer"]
            /\ qpc' = "respond"
            /\ UNCHANGED << q_waits, q_chat_failed >>
       ELSE IF q_attempt < RetryCount - 1
       THEN /\ q_waits' = Append(q_waits, Pow2(q_attempt))
            /\ UNCHANGED << qpc, q_response, q_chat_failed >>
       ELSE \* the last attempt re-raises; the outer except returns a result dict
            /\ q_response' = [kind |-> "result", text |-> "error_message"]
            /\ q_chat_failed' = TRUE
            /\ qpc' = "respond"
            /\ UNCHANGED q_waits
    /\ UNCHANGED << store, conversation_history, q_budget, q_text, q_use_history,
                    q_namespace, q_namespaces, q_pending, q_store_log, all_relevant_docs,
                    relevant_docs, q_prompt, q_result >>
    /\ UNCHANGED otherThanRag

\* the rest of query: history update, text_to_speech, the result
Respond(tts_outcome) ==
    /\ qpc = "respond"
    /\ conversation_history' = conversation_history
           \o << [role |-> "user", content |-> q_text],
                 [role |-> "assistant", content |-> q_response.text] >>
    /\ q_result' = IF tts_outcome = "ok"
                   THEN [kind |-> "answer", answer |-> q_response.text,
                         audio_path |-> "audio", relevant_sources |-> relevant_docs]
                   ELSE [kind |-> "error", answer |-> "Error processing your query",
                         audio_path |-> "None", relevant_sources |-> <<>>]
    /\ qpc' = "done"
    /\ UNCHANGED << store, q_budget, q_text, q_use_history, q_namespace, q_namespaces,
                    q_pending, q_store_log, all_relevant_docs, relevant_docs, q_prompt,
                    q_attempt, q_waits, q_chat_failed, q_response >>
    /\ UNCHANGED otherThanRag

\* RAGSystem.clear_history, between two queries
ClearHistory ==
    /\ qpc \in {"idle", "done"}
    /\ conversation_history' = <<>>
    /\ UNCHANGED << store, qpc, q_budget, q_text, q_use_history, q_namespace, q_namespaces,
                    q_pending, q_store_log, all_relevant_docs, relevant_docs, q_prompt,
                    q_attempt, q_waits, q_chat_failed, q_response, q_result >>
    /\ UNCHANGED otherThanRag

(***************************************************************************)
(* RAGEngine (rag/rag_engine.py) over OpenAIService.generate_text and      *)
(* VectorDBService.search.                                                 *)
(***************************************************************************)
MaxRewriteLen == 4
MaxContexts == 2

\* an Optional value: None, or the value
None == << >>
Some(v) == << v >>

\* the query argument: empty, blank, one character
EngineQueries == { << >>, << " " >>, << "a" >> }

\* the texts generate_text may return for a rewrite
Rewrites == UNION {[1..n -> {"a", " "}] : n \in 0..MaxRewriteLen}

\* the n_results argument; 0 stands for None
NResultsArgs == {0, 1}

\* the filter_metadata argument
Filters == { None, Some("document_id") }

\* if len(document) < 500
CompressThreshold == 500

\* a retrieved document is known by its id, the length of its text, its
\* distance, and the number of occurrences of the query's words in its text
DocLengths == {CompressThreshold - 1, CompressThreshold, CompressThreshold + 1}
CompressedLengths == {0, 99, 100, 101}
HitCounts == 0..1
EngineDistances == 0..1

EngineDoc(i, l, d, h) ==
    [id |-> i, len |-> l, distance |-> d, hits |-> h,
     compressed |-> FALSE, original_length |-> 0, compressed_length |-> 0]

ContextLists ==
    UNION { { [i \in 1..n |-> EngineDoc(i, f[i][1], f[i][2], f[i][3])] :
                f \in [1..n -> DocLengths \X EngineDistances \X HitCounts] } :
            n \in 0..MaxContexts }

\* config.TOP_K_RESULTS
TOP_K_RESULTS == 5

\* n_results or self.top_k
OrTopK(n_results) == IF n_results = 0 THEN TOP_K_RESULTS ELSE n_results

\* the parameters of VectorDBService.search; the source spells the fourth one
\* with a leading Hangul letter before "where", written x_where here
SearchParameters == {"collection_name", "query", "n_results", "x_where"}

\* the call retrieve makes: every argument by keyword, the filter as where=
SearchCall(query, n_results, filter_metadata) ==
    [collection_name |-> "collection", query |-> query, n_results |-> n_results,
     where |-> filter_metadata,
     keywords |-> {"collection_name", "query", "n_results", "where"}]

\* VectorDBService.search: a keyword that is no parameter is a TypeError at the
\* call; otherwise the body reads the unbound name `where`, the NameError is
\* caught by its except clause and the result is the empty list
Search(call) ==
    IF ~(call.keywords \subseteq SearchParameters)
    THEN [raised |-> "TypeError", results |-> <<>>]
    ELSE [raised |-> "", results |-> <<>>]

\* mutation of ExpandQuery: the rewrite is used whatever its length
ExpandQuery_NoGuard(query, generated) == Strip(generated)

\* _expand_query after generate_text returned: strip, length guard
ExpandQuery(query, generated) ==
    LET expanded == Strip(generated) IN
    IF Len(expanded) > Len(query) * 3 THEN query ELSE expanded

\* final_score = distance_score - (word_count * 0.1), in tenths
CombinedScore(result) == 10 * result.distance - result.hits

RECURSIVE InsertByCombinedScore(_, _)
InsertByCombinedScore(result, sorted) ==
    IF sorted = <<>> THEN << result >>
    ELSE IF CombinedScore(Head(sorted)) <= CombinedScore(result)
         THEN << Head(sorted) >> \o InsertByCombinedScore(result, Tail(sorted))
         ELSE << result >> \o sorted

\* sorted(scored_results, key=score): ascending, equal scores keep their order
RECURSIVE SortByCombinedScore(_)
SortByCombinedScore(results) ==
    IF results = <<>> THEN <<>>
    ELSE InsertByCombinedScore(results[Len(results)],
                               SortByCombinedScore(SubSeq(results, 1, Len(results) - 1)))

\* mutation of RerankResults: the first n_results candidates as they came
RerankResults_Unsorted(results, n_results) == Take(results, n_results)

\* _rerank_results
RerankResults(results, n_results) == Take(SortByCombinedScore(results), n_results)

\* mutation of CompressedContext: the compressed text is taken whatever its length
CompressedContext_NoGuard(context, compressed_length) ==
    [context EXCEPT !.len = compressed_length,
                    !.compressed = TRUE,
                    !.original_length = context.len,
                    !.compressed_length = compressed_length]

\* _compress_context for one context of at least 500 characters whose
\* generate_text call returned compressed_length characters:
\* len(compressed) < len(document) * 0.2 keeps the original
CompressedContext(context, compressed_length) ==
    IF 5 * compressed_length < context.len
    THEN context
    ELSE [context EXCEPT !.len = compressed_length,
                         !.compressed = TRUE,
                         !.original_length = context.len,
                         !.compressed_length = compressed_length]

\* the text generate_with_context obtains for a query and its contexts
Response(query, contexts) == << "response", query, contexts >>

\* mutation of EnhancedResult: expanded_query is always None
EnhancedResult_NoExpandedQuery(query, expanded_query, query_expansion, response, sources) ==
    [query |-> query, expanded_query |-> None, response |-> response, sources |-> sources]

\* the dict enhanced_rag_query returns
EnhancedResult(query, expanded_query, query_expansion, response, sources) ==
    [query |-> query,
     expanded_query |-> IF query_expansion THEN Some(expanded_query) ELSE None,
     response |-> response,
     sources |-> sources]

\* the dict rag_query returns
RagResult(query, response, sources) ==
    [query |-> query, response |-> response, sources |-> sources]

\* a RAGEngine method is entered: its arguments are bound, its locals are fresh
EngineCall(entry, pc, query, reranking, query_expansion, context_compression, n_results, filter_metadata, docs) ==
    /\ gpc = "idle"
    /\ gpc' = pc
    /\ g_entry' = entry
    /\ g_query' = query
    /\ g_reranking' = reranking
    /\ g_query_expansion' = query_expansion
    /\ g_context_compression' = context_compression
    /\ g_n_results' = n_results
    /\ g_filter_metadata' = filter_metadata
    /\ g_generated' = None
    /\ g_expanded_query' = query
    /\ g_search_calls' = <<>>
    /\ g_docs' = docs
    /\ g_contexts' = <<>>
    /\ g_k' = 1
    /\ g_compressed_contexts' = <<>>
    /\ g_compress_returns' = <<>>
    /\ g_attempt' = 0
    /\ g_waits' = <<>>
    /\ g_failed' = {}
    /\ g_error' = ""
    /\ g_result' = None
    /\ UNCHANGED g_collection
    /\ UNCHANGED otherThanEngine

\* enhanced_rag_query(query, collection_name, reranking, query_expansion,
\* context_compression, n_results, filter_metadata): expanded_query = query
EnhancedRagQuery(query, reranking, query_expansion, context_compression, n_results, filter_metadata) ==
    EngineCall("enhanced_rag_query", IF query_expansion THEN "expand" ELSE "retrieve",
               query, reranking, query_expansion, context_compression,
               n_results, filter_metadata, <<>>)

\* rag_query(query, collection_name, n_results, filter_metadata)
RagQuery(query, n_results, filter_metadata) ==
    EngineCall("rag_query", "retrieve", query, FALSE, FALSE, FALSE,
               n_results, filter_metadata, <<>>)

\* retrieve(query, collection_name, n_results, filter_metadata)
RetrieveCall(query, n_results, filter_metadata) ==
    EngineCall("retrieve", "retrieve", query, FALSE, FALSE, FALSE,
               n_results, filter_metadata, <<>>)

\* _rerank_results(query, results, n_results)
RerankResultsCall(query, results, n_results) ==
    EngineCall("_rerank_results", "rerank", query, TRUE, FALSE, FALSE,
               n_results, None, results)

\* _compress_context(query, contexts); with no contexts the loop body never runs
CompressContextCall(query, contexts) ==
    EngineCall("_compress_context", IF contexts = <<>> THEN "returned" ELSE "compress",
               query, FALSE, FALSE, TRUE, 0, None, contexts)

\* what the retry wrapper of generate_text does with the outcome of an attempt
AttemptResult(attempt, outcome) ==
    IF outcome = "ok" THEN "return"
    ELSE IF outcome = "api_error" /\ attempt < StopAfterAttempt THEN "retry"
    ELSE "raise"

\* _expand_query: one attempt of its generate_text call
ExpandAttempt(outcome, generated) ==
    /\ gpc = "expand"
    /\ LET r == AttemptResult(g_attempt + 1, outcome) IN
       IF r = "return"
       THEN /\ g_generated' = Some(generated)
            /\ g_expanded_query' = ExpandQuery(g_query, generated)
            /\ gpc' = "retrieve"
            /\ g_attempt' = 0
            /\ g_waits' = <<>>
            /\ UNCHANGED g_failed
       ELSE IF r = "retry"
       THEN /\ g_attempt' = g_attempt + 1
            /\ g_waits' = Append(g_waits, WaitExponential(g_attempt + 1))
            /\ UNCHANGED << gpc, g_generated, g_expanded_query, g_failed >>
       ELSE \* except Exception: return query
            /\ g_expanded_query' = g_query
            /\ g_failed' = g_failed \cup {"expand"}
            /\ gpc' = "retrieve"
            /\ g_attempt' = 0
            /\ g_waits' = <<>>
            /\ UNCHANGED g_generated
    /\ UNCHANGED << g_entry, g_query, g_reranking, g_query_expansion,
                    g_context_compression, g_n_results, g_filter_metadata,
                    g_search_calls, g_docs, g_contexts, g_k, g_compressed_contexts, g_compress_returns,
                    g_error, g_result >>
    /\ UNCHANGED g_collection
    /\ UNCHANGED otherThanEngine

\* mutation of InitialNResults: enhanced_rag_query always doubles
InitialNResults_AlwaysDouble(entry, reranking, n_results) ==
    IF entry = "enhanced_rag_query" THEN OrTopK(n_results) * 2 ELSE OrTopK(n_results)

\* the n_results handed to retrieve: (n_results or self.top_k) * 2 if reranking
\* else (n_results or self.top_k) in enhanced_rag_query, n_results or
\* self.top_k in rag_query
InitialNResults(entry, reranking, n_results) ==
    IF entry = "enhanced_rag_query" /\ reranking
    THEN OrTopK(n_results) * 2
    ELSE OrTopK(n_results)

\* retrieve, called directly or by enhanced_rag_query and rag_query, and what the caller
\* does next with the documents
Retrieve ==
    /\ gpc = "retrieve"
    /\ LET query == IF g_entry = "enhanced_rag_query" THEN g_expanded_query ELSE g_query
           n_results == InitialNResults(g_entry, g_reranking, g_n_results)
           call == SearchCall(query, OrTopK(n_results), g_filter_metadata)
           Retrieved(docs) ==
               /\ g_docs' = docs
               /\ g_error' = g_error
               /\ IF g_entry = "enhanced_rag_query" /\ g_reranking /\ docs # <<>>
                  THEN gpc' = "rerank" /\ UNCHANGED g_contexts
                  ELSE IF g_entry = "enhanced_rag_query" /\ g_context_compression
                          /\ docs # <<>>
                  THEN gpc' = "compress" /\ UNCHANGED g_contexts
                  ELSE IF g_entry = "retrieve"
                  THEN gpc' = "returned" /\ UNCHANGED g_contexts
                  ELSE gpc' = "generate" /\ g_contexts' = docs
       IN IF IsBlank(query)
          THEN Retrieved(<<>>) /\ UNCHANGED g_search_calls
          ELSE /\ g_search_calls' = Append(g_search_calls, call)
               /\ IF Search(call).raised # ""
                  THEN /\ gpc' = "raised"
                       /\ g_error' = Search(call).raised
                       /\ UNCHANGED << g_docs, g_contexts >>
                  ELSE Retrieved(Search(call).results)
    /\ UNCHANGED << g_entry, g_query, g_reranking, g_query_expansion,
                    g_context_compression, g_n_results, g_filter_metadata, g_generated,
                    g_expanded_query, g_k, g_compressed_contexts, g_compress_returns, g_attempt, g_waits,
                    g_failed, g_result >>
    /\ UNCHANGED g_collection
    /\ UNCHANGED otherThanEngine

\* _rerank_results, and what enhanced_rag_query does next
Rerank ==
    /\ gpc = "rerank"
    /\ LET n_results == IF g_entry = "_rerank_results" THEN g_n_results
                        ELSE OrTopK(g_n_results)
           reranked == RerankResults(g_docs, n_results)
       IN /\ g_docs' = reranked
          /\ IF g_entry = "_rerank_results"
             THEN gpc' = "returned" /\ UNCHANGED g_contexts
             ELSE IF g_context_compression /\ reranked # <<>>
             THEN gpc' = "compress" /\ UNCHANGED g_contexts
             ELSE gpc' = "generate" /\ g_contexts' = reranked
    /\ UNCHANGED << g_entry, g_query, g_reranking, g_query_expansion,
                    g_context_compression, g_n_results, g_filter_metadata, g_generated,
                    g_expanded_query, g_search_calls, g_k, g_compressed_contexts, g_compress_returns,
                    g_attempt, g_waits, g_failed, g_error, g_result >>
    /\ UNCHANGED g_collection
    /\ UNCHANGED otherThanEngine

\* mutation of IsShort: a context of exactly the threshold length is short too
IsShort_AtMost(context) == context.len <= CompressThreshold

\* if len(document) < 500: the context is kept as it is, without a call
IsShort(context) == context.len < CompressThreshold

\* _compress_context: the for loop over the context at g_k, one attempt of
\* generate_text when the context is long; the return when the loop ends
CompressStep(outcome, compressed_length) ==
    /\ gpc = "compress"
    /\ LET context == g_docs[g_k]
           after == IF g_entry = "_compress_context" THEN "returned" ELSE "generate"
           r == AttemptResult(g_attempt + 1, outcome)
           Continue(compressed_contexts, returned) ==
               /\ g_compressed_contexts' = compressed_contexts
               /\ g_compress_returns' = Append(g_compress_returns, returned)
               /\ g_attempt' = 0
               /\ g_waits' = <<>>
               /\ UNCHANGED g_failed
               /\ IF g_k = Len(g_docs)
                  THEN gpc' = after /\ g_contexts' = compressed_contexts /\ UNCHANGED g_k
                  ELSE g_k' = g_k + 1 /\ UNCHANGED << gpc, g_contexts >>
       IN IF IsShort(context)
          THEN Continue(Append(g_compressed_contexts, context), None)
          ELSE IF r = "return"
          THEN Continue(Append(g_compressed_contexts,
                               CompressedContext(context, compressed_length)),
                        Some(compressed_length))
          ELSE IF r = "retry"
          THEN /\ g_attempt' = g_attempt + 1
               /\ g_waits' = Append(g_waits, WaitExponential(g_attempt + 1))
               /\ UNCHANGED << gpc, g_contexts, g_k, g_compressed_contexts, g_compress_returns, g_failed >>
          ELSE \* except Exception: return contexts
               /\ g_contexts' = g_docs
               /\ g_failed' = g_failed \cup {"compress"}
               /\ gpc' = after
               /\ g_attempt' = 0
               /\ g_waits' = <<>>
               /\ UNCHANGED << g_k, g_compressed_contexts, g_compress_returns >>
    /\ UNCHANGED << g_entry, g_query, g_reranking, g_query_expansion,
                    g_context_compression, g_n_results, g_filter_metadata, g_generated,
                    g_expanded_query, g_search_calls, g_docs, g_error, g_result >>
    /\ UNCHANGED g_collection
    /\ UNCHANGED otherThanEngine

\* generate_with_context: one attempt of its generate_text call; the dict is
\* returned when it succeeds, the exception leaves the method when it does not
GenerateAttempt(outcome) ==
    /\ gpc = "generate"
    /\ LET r == AttemptResult(g_attempt + 1, outcome)
           response == Response(g_query, g_contexts)
       IN IF r = "return"
          THEN /\ gpc' = "returned"
               /\ g_result' = IF g_entry = "enhanced_rag_query"
                              THEN EnhancedResult(g_query, g_expanded_query,
                                                  g_query_expansion, response, g_docs)
                              ELSE RagResult(g_query, response, g_docs)
               /\ UNCHANGED << g_attempt, g_waits, g_failed, g_error >>
          ELSE IF r = "retry"
          THEN /\ g_attempt' = g_attempt + 1
               /\ g_waits' = Append(g_waits, WaitExponential(g_attempt + 1))
               /\ UNCHANGED << gpc, g_result, g_failed, g_error >>
          ELSE /\ gpc' = "raised"
               /\ g_error' = IF outcome = "api_error" THEN "RetryError" ELSE "Exception"
               /\ g_failed' = g_failed \cup {"generate"}
               /\ UNCHANGED << g_attempt, g_waits, g_result >>
    /\ UNCHANGED << g_entry, g_query, g_reranking, g_query_expansion,
                    g_context_compression, g_n_results, g_filter_metadata, g_generated,
                    g_expanded_query, g_search_calls, g_docs, g_contexts, g_k,
                    g_compressed_contexts, g_compress_returns >>
    /\ UNCHANGED g_collection
    /\ UNCHANGED otherThanEngine

Strategies == {"character", "sentence", "paragraph"}

ChunkerInit ==
    /\ text = <<>>
    /\ chunk_size = 1
    /\ chunk_overlap = 0
    /\ chunking_strategy = "sentence"
    /\ cpc = "idle"
    /\ chunks = <<>>
    /\ ctext = <<>>
    /\ start = 0
    /\ cret = "done"
    /\ processed_sentences = <<>>
    /\ s_current_chunk = <<>>
    /\ sret = "done"
    /\ paragraphs = <<>>
    /\ p_current_chunk = <<>>

(***************************************************************************)
(* Language codes: language/detector.py (LanguageDetector) and            *)
(* processors/language/language_processor.py (LanguageProcessor).  A code  *)
(* is a sequence of characters.                                            *)
(***************************************************************************)
KO == << "k", "o" >>
EN == << "e", "n" >>
JA == << "j", "a" >>
ZH == << "z", "h" >>
FR == << "f", "r" >>

\* base-region, as the variants of language_groups are written
Variant(base, region) == base \o << "-" >> \o region

ZH_CN == Variant(ZH, << "c", "n" >>)
ZH_TW == Variant(ZH, << "t", "w" >>)

\* str.lower() over the letters the codes use
Lower(s) ==
    LET LowerChar(c) ==
            CASE c = "A" -> "a" [] c = "C" -> "c" [] c = "E" -> "e" [] c = "H" -> "h"
              [] c = "K" -> "k" [] c = "N" -> "n" [] c = "O" -> "o" [] c = "R" -> "r"
              [] c = "S" -> "s" [] c = "U" -> "u" [] c = "Z" -> "z" [] OTHER -> c
    IN [i \in 1..Len(s) |-> LowerChar(s[i])]

\* s.split(sep)[0]
RECURSIVE SplitFirst(_, _)
SplitFirst(s, sep) ==
    IF s = <<>> \/ Head(s) = sep THEN <<>>
    ELSE << Head(s) >> \o SplitFirst(Tail(s), sep)

\* LanguageDetector.is_supported_language(language_code)
IsSupportedLanguage(supported, language_code) ==
    Lower(SplitFirst(language_code, "_")) \in supported

\* language_groups of get_closest_supported_language, in the dict's order
language_groups ==
    LET ES == << "e", "s" >>
        DE == << "d", "e" >>
    IN
    << << ZH, { ZH_CN, ZH_TW, Variant(ZH, << "h", "k" >>) } >>,
       << EN, { Variant(EN, << "u", "s" >>), Variant(EN, << "g", "b" >>),
                Variant(EN, << "a", "u" >>), Variant(EN, << "c", "a" >>) } >>,
       << ES, { Variant(ES, ES), Variant(ES, << "m", "x" >>),
                Variant(ES, << "a", "r" >>) } >>,
       << FR, { Variant(FR, FR), Variant(FR, << "c", "a" >>) } >>,
       << DE, { Variant(DE, DE), Variant(DE, << "a", "t" >>),
                Variant(DE, << "c", "h" >>) } >> >>

\* LanguageDetector.get_closest_supported_language(language_code)
GetClosestSupportedLanguage(supported, language_code) ==
    LET lang_code == Lower(SplitFirst(language_code, "_"))
        matching == { g \in 1..Len(language_groups) : lang_code \in language_groups[g][2] }
    IN IF IsSupportedLanguage(supported, lang_code) THEN lang_code
       ELSE IF matching # {}
       THEN language_groups[CHOOSE g \in matching : \A h \in matching : g <= h][1]
       ELSE EN

\* language codes a caller passes: a base code, or a base and a region joined
\* by "-" or "_", in either case
LanguageCodes ==
    LET BaseCodes == { KO, EN, JA, ZH, FR, << "E", "N" >>, << "i", "t" >> }
        Regions == { << "U", "S" >>, << "u", "s" >>, << "K", "R" >>, << "k", "r" >>,
                     << "c", "n" >>, << "C", "N" >>, FR, << "n", "z" >> }
    IN BaseCodes
       \cup { b \o << sep >> \o r : b \in BaseCodes, sep \in {"-", "_"}, r \in Regions }

\* allow-lists a LanguageDetector is constructed with: not empty
AllowLists == (SUBSET { KO, EN, JA, ZH, FR }) \ { {} }

\* get_closest_supported_language(language_code) of a
\* LanguageDetector(supported)
GetClosestSupportedLanguageCall(supported, language_code) ==
    /\ lpc' = "returned"
    /\ l_func' = "get_closest_supported_language"
    /\ supported_languages' = supported
    /\ l_code' = language_code
    /\ l_result' = GetClosestSupportedLanguage(supported, language_code)
    /\ UNCHANGED default_language
    /\ UNCHANGED otherThanLang

\* config.SUPPORTED_LANGUAGES and config.DEFAULT_LANGUAGE
SUPPORTED_LANGUAGES == { KO, EN, JA, ZH }
DEFAULT_LANGUAGE == KO

\* what langdetect's detect(text) reports: a code of its own list (Chinese is
\* zh-cn or zh-tw there), or it raises
DetectedCodes == { KO, EN, JA, ZH_CN, ZH_TW, FR }

\* the normalisation and the allow-list test of LanguageProcessor.detect_language
NormalizedLang(detected) ==
    IF detected = ZH_CN \/ detected = ZH_TW THEN detected ELSE SplitFirst(detected, "-")

\* LanguageProcessor(supported_arg, default_arg).detect_language(text), the
\* text being blank, or detect(text) raising or reporting the code `detected`;
\* an empty list and None, an empty string and None are alike under `or`
DetectLanguage(supported_arg, default_arg, outcome, detected) ==
    LET supported == IF supported_arg = {} THEN SUPPORTED_LANGUAGES ELSE supported_arg
        default == IF default_arg = <<>> THEN DEFAULT_LANGUAGE ELSE default_arg
    IN
    /\ lpc' = "returned"
    /\ l_func' = "detect_language"
    /\ supported_languages' = supported
    /\ default_language' = default
    /\ l_code' = IF outcome = "reports" THEN detected ELSE <<>>
    /\ l_result' = IF outcome = "reports" /\ NormalizedLang(detected) \in supported
                   THEN NormalizedLang(detected)
                   ELSE default
    /\ UNCHANGED otherThanLang

(***************************************************************************)
(* services/lecture_service.py: LectureService.process_pdf, which adds    *)
(* the pages of a lecture to the knowledge base of its RAGSystem.          *)
(***************************************************************************)
MaxLectures == 2

\* os.path.basename(pdf_path), as characters
Filenames == { << "a", ".", "p" >>, << "b", ".", "p" >>, << "a", "_", "p" >> }

\* f"lecture_{filename.replace('.', '_')}"
LectureNamespace(filename) ==
    << "lecture_" >> \o [i \in 1..Len(filename) |-> IF filename[i] = "." THEN "_" ELSE filename[i]]

\* get_rag_system(): RAGSystem(namespace="default"), the instance LectureService keeps
RagSystemNamespace == << "default" >>

\* TextEmbedder.add_to_vectordb: metadata["namespace"] = namespace on every chunk
AddToVectordb(document_chunks, namespace) ==
    [i \in 1..Len(document_chunks) |-> [document_chunks[i] EXCEPT !.namespace = namespace]]

\* add_page_to_knowledge -> add_document_to_knowledge(combined_text, metadata)
\* for one page of the lecture of call number `call`: chunk_document gives
\* one chunk for a page of up to 1000 characters, none for an empty one, and
\* the chunk goes to add_document_chunks(chunks, self.namespace); when the
\* store raises, the exception is caught and nothing is added
AddPageToKnowledge(call, filename, page_number, has_text, stored) ==
    IF has_text /\ stored
    THEN AddToVectordb(<< [call |-> call, filename |-> filename,
                           page_number |-> page_number, namespace |-> << >>] >>,
                       RagSystemNamespace)
    ELSE << >>

\* the loop of process_pdf over parsed_data['pages']
RECURSIVE AddPagesFrom(_, _, _, _, _)
AddPagesFrom(call, filename, i, has_text, stored) ==
    IF i > Len(has_text) THEN << >>
    ELSE AddPageToKnowledge(call, filename, i, has_text[i], stored[i])
         \o AddPagesFrom(call, filename, i + 1, has_text, stored)

\* process_pdf(pdf_path, language): extraction, parsing or script generation
\* raising gives {'error': ...} before anything is added; the pages are added;
\* the audio step raising gives {'error': ...} after they were added
ProcessPdf(filename, has_text, stored, outcome) ==
    /\ Len(process_pdf_results) < MaxLectures
    /\ lecture_collection' =
          IF outcome = "script_error" THEN lecture_collection
          ELSE lecture_collection
               \o AddPagesFrom(Len(process_pdf_results) + 1, filename, 1, has_text, stored)
    /\ process_pdf_results' =
          Append(process_pdf_results,
                 IF outcome = "ok"
                 THEN [filename |-> filename, namespace |-> Some(LectureNamespace(filename))]
                 ELSE [filename |-> filename, namespace |-> None])
    /\ UNCHANGED otherThanLecture

(***************************************************************************)
(* EmbeddingPipeline.process_chunks and process_document                   *)
(* (embeddings/embedding_pipeline.py) over VectorDBService.add_documents.  *)
(***************************************************************************)
MaxPipelineChunks == 3

\* the chunk lists tried. A chunk: chunk_id 0 stands for a missing or empty
\* "chunk_id"; has_text is FALSE for a chunk without a "text" key; document_id
\* is metadata["document_id"], None before process_document writes it
ChunkLists ==
    LET PipelineChunks == [chunk_id : 0..1, has_text : BOOLEAN, document_id : { <<>> }] IN
    UNION { [1..n -> PipelineChunks] : n \in 0..MaxPipelineChunks }

\* chunk.get("chunk_id") or f"chunk_{uuid4().hex}": a generated id is one no
\* other chunk has, here the negated position of the chunk
ChunkId(chunk_list, k) ==
    IF chunk_list[k].chunk_id # 0 THEN chunk_list[k].chunk_id ELSE 0 - k

\* VectorDBService.add_documents: collection.add stores the batch and True is
\* returned; an exception of the store is logged and False is returned
AddDocuments(collection, ids, document_ids, outcome) ==
    IF outcome = "ok"
    THEN [stored |-> collection \o [k \in 1..Len(ids) |->
                         [id |-> ids[k], document_id |-> document_ids[k]]],
          returned |-> TRUE]
    ELSE [stored |-> collection, returned |-> FALSE]

\* process_chunks(chunks, collection_name), entered directly or as the last
\* statement of process_document
ProcessChunks(entry, chunk_list, size) ==
    /\ ppc \in {"idle", "done"}
    /\ p_entry' = entry
    /\ p_chunks' = chunk_list
    /\ batch_size' = size
    /\ p_i' = 0
    /\ add_documents_log' = <<>>
    /\ pipeline_collection' = <<>>
    /\ IF chunk_list = <<>>
       THEN ppc' = "done" /\ p_result' = "False"
       ELSE ppc' = "batch" /\ p_result' = "none"
    /\ UNCHANGED otherThanPipeline

\* process_document(document_data, collection_name, document_id): the document
\* id is written into the metadata of every chunk, then process_chunks runs
ProcessDocument(chunk_list, size, document_id) ==
    ProcessChunks("process_document",
                  IF document_id # <<>>
                  THEN [k \in 1..Len(chunk_list) |->
                           [chunk_list[k] EXCEPT !.document_id = document_id]]
                  ELSE chunk_list,
                  size)

\* one pass of the batch loop: a chunk without "text" raises KeyError, which
\* the except clause turns into False; otherwise add_documents is called and
\* its return value is dropped
ProcessBatch(outcome) ==
    /\ ppc = "batch"
    /\ p_i < Len(p_chunks)
    /\ LET last == IF p_i + batch_size < Len(p_chunks) THEN p_i + batch_size
                   ELSE Len(p_chunks)
           ids == [k \in 1..(last - p_i) |-> ChunkId(p_chunks, p_i + k)]
           document_ids == [k \in 1..(last - p_i) |-> p_chunks[p_i + k].document_id]
           added == AddDocuments(pipeline_collection, ids, document_ids, outcome) IN
       IF \E k \in (p_i + 1)..last : ~p_chunks[k].has_text
       THEN /\ ppc' = "done"
            /\ p_result' = "False"
            /\ UNCHANGED << p_i, add_documents_log, pipeline_collection >>
       ELSE /\ pipeline_collection' = added.stored
            /\ add_documents_log' = Append(add_documents_log, added.returned)
            /\ p_i' = p_i + batch_size
            /\ UNCHANGED << ppc, p_result >>
    /\ UNCHANGED << p_entry, p_chunks, batch_size >>
    /\ UNCHANGED otherThanPipeline

\* the loop is over: return True
ProcessChunksReturn ==
    /\ ppc = "batch"
    /\ p_i >= Len(p_chunks)
    /\ ppc' = "done"
    /\ p_result' = "True"
    /\ UNCHANGED << p_entry, p_chunks, batch_size, p_i, add_documents_log,
                    pipeline_collection >>
    /\ UNCHANGED otherThanPipeline

PipelineIdle ==
    /\ ppc = "idle"
    /\ p_entry = "none"
    /\ p_chunks = <<>>
    /\ batch_size = 1
    /\ p_i = 0
    /\ add_documents_log = <<>>
    /\ pipeline_collection = <<>>
    /\ p_result = "none"

LectureIdle ==
    /\ lecture_collection = << >>
    /\ process_pdf_results = << >>

LangIdle ==
    /\ lpc = "idle"
    /\ l_func = "none"
    /\ supported_languages = {}
    /\ default_language = <<>>
    /\ l_code = <<>>
    /\ l_result = <<>>

PagesIdle ==
    /\ dpc = "idle"
    /\ document = <<>>
    /\ overlap_pages = FALSE
    /\ page_numbers = <<>>
    /\ d_i = 1
    /\ chunked_document = <<>>

EmbedIdle ==
    /\ epc = "idle"
    /\ e_func = "none"
    /\ e_texts = <<>>
    /\ e_attempt = 0
    /\ e_waits = <<>>
    /\ e_provider_failed = FALSE
    /\ e_result = <<>>

RagIdle ==
    /\ conversation_history = <<>>
    /\ qpc = "idle"
    /\ q_text = <<>>
    /\ q_use_history = TRUE
    /\ q_namespace = "default"
    /\ q_namespaces = <<>>
    /\ q_pending = <<>>
    /\ q_store_log = <<>>
    /\ all_relevant_docs = <<>>
    /\ relevant_docs = <<>>
    /\ q_prompt = <<>>
    /\ q_attempt = 0
    /\ q_waits = <<>>
    /\ q_chat_failed = FALSE
    /\ q_response = NoResult
    /\ q_result = NoResult

EngineIdle ==
    /\ gpc = "idle"
    /\ g_entry = "none"
    /\ g_query = <<>>
    /\ g_reranking = FALSE
    /\ g_query_expansion = FALSE
    /\ g_context_compression = FALSE
    /\ g_n_results = 0
    /\ g_filter_metadata = None
    /\ g_generated = None
    /\ g_expanded_query = <<>>
    /\ g_search_calls = <<>>
    /\ g_docs = <<>>
    /\ g_contexts = <<>>
    /\ g_k = 1
    /\ g_compressed_contexts = <<>>
    /\ g_compress_returns = <<>>
    /\ g_attempt = 0
    /\ g_waits = <<>>
    /\ g_failed = {}
    /\ g_error = ""
    /\ g_result = None

EmptyStore == [ns \in Namespaces |-> <<>>]

Init ==
    /\ ChunkerInit
    /\ PagesIdle
    /\ LangIdle
    /\ LectureIdle
    /\ PipelineIdle
    /\ EmbedIdle
    /\ RagIdle
    /\ EngineIdle
    /\ g_collection = <<>>
    /\ store = EmptyStore
    /\ q_budget = 0

\* a RAGSystem over a vector store that already holds chunks; one query
RagInit ==
    /\ ChunkerInit
    /\ PagesIdle
    /\ LangIdle
    /\ LectureIdle
    /\ PipelineIdle
    /\ EmbedIdle
    /\ RagIdle
    /\ EngineIdle
    /\ g_collection = <<>>
    /\ \E c \in [Namespaces -> UNION {NamespaceContents(ns) : ns \in Namespaces}] :
          store = [ns \in Namespaces |-> StoredDocs(ns, c[ns])]
    /\ q_budget = 1

Next ==
    \/ /\ cpc = "idle"
       /\ \E t \in Texts, size \in 1..MaxChunkSize, overlap \in 0..MaxOverlap,
             strategy \in Strategies : ChunkText(t, size, overlap, strategy)
    \/ CharStep
    \/ CharReturn
    \/ SentenceStep
    \/ SentenceReturn
    \/ ParagraphStep
    \/ ParagraphReturn
    \/ /\ cpc = "idle"
       /\ \E t \in Texts, size \in 1..MaxChunkSize, overlap \in 0..MaxOverlap :
             ChunkDocument(t, size, overlap)
    \/ ChunkDocumentStep
    \/ ChunkDocumentReturn

Spec == Init /\ [][Next]_vars

PagesNext ==
    \/ /\ cpc = "idle"
       /\ \E doc \in Documents, with_overlap \in BOOLEAN, size \in 1..MaxChunkSize,
             overlap \in 0..MaxOverlap, strategy \in Strategies :
             ChunkDocumentWithOverlap(doc, with_overlap, size, overlap, strategy)
    \/ CharStep
    \/ CharReturn
    \/ SentenceStep
    \/ SentenceReturn
    \/ ParagraphStep
    \/ ParagraphReturn
    \/ PageDone

SpecPages == Init /\ [][PagesNext]_vars

PipelineNext ==
    \/ /\ ppc \in {"idle", "done"}
       /\ \E chunk_list \in ChunkLists, size \in {1, 2} :
             ProcessChunks("process_chunks", chunk_list, size)
    \/ /\ ppc \in {"idle", "done"}
       /\ \E chunk_list \in ChunkLists, size \in {1, 2},
             document_id \in { <<>>, << "d" >> } :
             ProcessDocument(chunk_list, size, document_id)
    \/ \E outcome \in {"ok", "error"} : ProcessBatch(outcome)
    \/ ProcessChunksReturn

SpecPipeline == Init /\ [][PipelineNext]_vars

LectureNext ==
    \E filename \in Filenames, n \in 0..MaxPages :
       \E has_text \in [1..n -> BOOLEAN], stored \in [1..n -> BOOLEAN],
          outcome \in {"ok", "script_error", "audio_error"} :
          ProcessPdf(filename, has_text, stored, outcome)

SpecLecture == Init /\ [][LectureNext]_vars

LanguageNext ==
    \/ /\ lpc = "idle"
       /\ \E supported \in AllowLists, language_code \in LanguageCodes :
             GetClosestSupportedLanguageCall(supported, language_code)
    \/ /\ lpc = "idle"
       /\ \E supported_arg \in SUBSET { KO, EN, ZH }, default_arg \in { <<>>, KO, EN },
             outcome \in {"blank", "raises", "reports"}, detected \in DetectedCodes :
             DetectLanguage(supported_arg, default_arg, outcome, detected)

SpecLanguage == Init /\ [][LanguageNext]_vars

(***************************************************************************)
(* Construction of the chunkers with any integer size, a size of 0 or     *)
(* below included.                                                         *)
(***************************************************************************)
\* config.CHUNK_SIZE and config.CHUNK_OVERLAP: int(os.getenv(...)), the default
\* or a 0 set in the environment
ConfigChunkSizes == {0, 1000}
ConfigChunkOverlaps == {0, 200}

\* `arg or default`: None and 0 are both falsy
OrConfig(arg, default) ==
    IF arg = None THEN default ELSE IF arg[1] = 0 THEN default ELSE arg[1]

\* DocumentChunker(chunk_size, chunk_overlap, "character").chunk_text(t) under
\* a configuration of CHUNK_SIZE and CHUNK_OVERLAP
CharacterChunker(size_arg, overlap_arg, t, CHUNK_SIZE, CHUNK_OVERLAP) ==
    ChunkText(t, OrConfig(size_arg, CHUNK_SIZE), OrConfig(overlap_arg, CHUNK_OVERLAP),
              "character")

ConfigNext ==
    \/ /\ cpc = "idle"
       /\ \E t \in Texts, size_arg \in {None} \cup {Some(n) : n \in -1..MaxChunkSize},
             overlap_arg \in {None} \cup {Some(n) : n \in 0..MaxOverlap},
             config_size \in ConfigChunkSizes, config_overlap \in ConfigChunkOverlaps :
             CharacterChunker(size_arg, overlap_arg, t, config_size, config_overlap)
    \/ CharStep
    \/ CharReturn
    \/ /\ cpc = "idle"
       /\ \E t \in Texts, size \in -1..MaxChunkSize, overlap \in 0..MaxOverlap :
             ChunkDocument(t, size, overlap)
    \/ ChunkDocumentStep
    \/ ChunkDocumentReturn

SpecConfig == Init /\ [][ConfigNext]_vars

EmbedNext ==
    \/ /\ epc = "idle"
       /\ \E texts \in EmbedBatches : GetEmbeddingsBatch(texts)
    \/ \E outcome \in ProviderOutcomes : BatchAttempt(outcome)
    \/ /\ epc = "idle"
       /\ \E texts \in EmbedBatches, outcome \in ProviderOutcomes : GetEmbeddings(texts, outcome)

SpecEmbed == Init /\ [][EmbedNext]_vars

Outcomes == {"ok", "error"}

RagNext ==
    \/ /\ qpc \in {"idle", "done"}
       /\ \E query_text \in QueryTexts, use_history \in BOOLEAN,
             namespace \in Namespaces, namespaces \in NamespaceLists :
             Query(query_text, use_history, namespace, namespaces)
    \/ \E outcome \in Outcomes : RetrieveNamespace(outcome)
    \/ MergeNamespaces
    \/ \E outcome \in Outcomes : RetrieveSingle(outcome)
    \/ \E outcome \in Outcomes : ChatAttempt(outcome)
    \/ \E tts_outcome \in Outcomes : Respond(tts_outcome)

SpecRag == RagInit /\ [][RagNext]_vars

\* a RAGSystem that answers several queries in a row over an empty collection
MaxQueries == 4

HistoryInit ==
    /\ ChunkerInit
    /\ PagesIdle
    /\ LangIdle
    /\ LectureIdle
    /\ PipelineIdle
    /\ EmbedIdle
    /\ RagIdle
    /\ EngineIdle
    /\ g_collection = <<>>
    /\ store = EmptyStore
    /\ q_budget = MaxQueries

SpecHistory == HistoryInit /\ [][RagNext]_vars

\* the same RAGSystem, its history cleared between queries at will
ClearNext == RagNext \/ ClearHistory

SpecClear == HistoryInit /\ [][ClearNext]_vars

\* what the collection may hold when the engine is used: nothing, or two documents
Collections ==
    { <<>>,
      << EngineDoc(1, CompressThreshold - 1, 0, 1), EngineDoc(2, CompressThreshold, 1, 0) >> }

EngineInit ==
    /\ ChunkerInit
    /\ PagesIdle
    /\ LangIdle
    /\ LectureIdle
    /\ PipelineIdle
    /\ EmbedIdle
    /\ RagIdle
    /\ EngineIdle
    /\ g_collection \in Collections
    /\ store = EmptyStore
    /\ q_budget = 0

EngineNext ==
    \/ /\ gpc = "idle"
       /\ \E query \in EngineQueries, reranking \in BOOLEAN, query_expansion \in BOOLEAN,
             context_compression \in BOOLEAN, n_results \in NResultsArgs,
             filter_metadata \in Filters :
             EnhancedRagQuery(query, reranking, query_expansion, context_compression,
                              n_results, filter_metadata)
    \/ /\ gpc = "idle"
       /\ \E query \in EngineQueries, n_results \in NResultsArgs,
             filter_metadata \in Filters : RagQuery(query, n_results, filter_metadata)
    \/ /\ gpc = "idle"
       /\ \E query \in EngineQueries, n_results \in NResultsArgs,
             filter_metadata \in Filters : RetrieveCall(query, n_results, filter_metadata)
    \/ /\ gpc = "idle"
       /\ \E query \in EngineQueries, results \in ContextLists,
             n_results \in 1..MaxContexts : RerankResultsCall(query, results, n_results)
    \/ /\ gpc = "idle"
       /\ \E query \in EngineQueries, contexts \in ContextLists :
             CompressContextCall(query, contexts)
    \/ /\ gpc = "expand"
       /\ \E outcome \in ProviderOutcomes, generated \in Rewrites :
             ExpandAttempt(outcome, generated)
    \/ Retrieve
    \/ Rerank
    \/ /\ gpc = "compress"
       /\ \E outcome \in ProviderOutcomes, compressed_length \in CompressedLengths :
             CompressStep(outcome, compressed_length)
    \/ \E outcome \in ProviderOutcomes : GenerateAttempt(outcome)

SpecEngine == EngineInit /\ [][EngineNext]_vars

(***************************************************************************)
(* Chunker properties                                                      *)
(***************************************************************************)

\* C1: every pass of the character loop moves the window start forward by at
\* least one character (so the loop ends after finitely many chunks), for
\* every size > 0 and every overlap >= 0.
C1_CharacterForwardProgress == [][CharStep => start' >= start + 1]_vars

\* the chunks `cs`, each later one with at most `overlap` leading (overlapped)
\* characters removed, concatenate to exactly `rest`
RECURSIVE Rebuilds(_, _, _, _)
Rebuilds(cs, rest, overlap, first) ==
    IF cs = <<>> THEN rest = <<>>
    ELSE \E k \in 0..(IF first THEN 0 ELSE Min(overlap, Len(Head(cs)))) :
            LET piece == SubSeq(Head(cs), k + 1, Len(Head(cs))) IN
            /\ Len(piece) <= Len(rest)
            /\ SubSeq(rest, 1, Len(piece)) = piece
            /\ Rebuilds(Tail(cs), SubSeq(rest, Len(piece) + 1, Len(rest)), overlap, FALSE)

\* C2: for every strategy and every non-blank text, the chunks with their
\* overlapped spans removed concatenate to the original text.
C2_RoundTrip ==
    (cpc = "done" /\ chunking_strategy \in Strategies /\ ~IsBlank(text))
        => Rebuilds(chunks, text, chunk_overlap, TRUE)

\* C3: every chunk emitted by chunk_text is at most chunk_size characters long
\* (no chunk needs the forced-oversize flag).
C3_ChunkWithinSize ==
    chunking_strategy \in Strategies
        => \A i \in 1..Len(chunks) : Len(chunks[i]) <= chunk_size

\* C3 witness: a sentence longer than chunk_size was force-split by the character
\* loop, after a packed chunk had been emitted, and the chunking finished
C3_Witness ==
    /\ cpc = "done"
    /\ chunking_strategy = "sentence"
    /\ ctext # <<>>
    /\ Len(ctext) > chunk_size
    /\ Len(chunks) >= 3

(***************************************************************************)
(* Embedding properties                                                    *)
(***************************************************************************)

\* C5: a returned batch has one entry per input text, entry i being the
\* embedding of texts[i] when texts[i] is non-blank and the empty vector when
\* it is blank; a failed provider call never returns a list.
C5_BatchAligned ==
    epc = "returned"
        => /\ ~e_provider_failed
           /\ Len(e_result) = Len(e_texts)
           /\ \A i \in 1..Len(e_texts) :
                 e_result[i] = IF IsBlank(e_texts[i]) THEN <<>> ELSE Embedding(e_texts[i])

(***************************************************************************)
(* RAGSystem properties                                                    *)
(***************************************************************************)

C6_FailureSurfaced ==
    /\ q_attempt <= RetryCount
    /\ \A i \in 1..Len(q_waits) : q_waits[i] = Pow2(i - 1)
    /\ (qpc = "done" /\ q_chat_failed) => q_result.kind = "error"

\* C7: when a vector-store query of the retrieval failed, the whole query
\* fails: the caller gets no (empty or partial) candidate list.
C7_RetrievalFailureFailsQuery ==
    (qpc = "done" /\ \E i \in 1..Len(q_store_log) : q_store_log[i][2] = "error")
        => q_result.kind = "error"

\* C8: when the generate_text call of the expansion pass or of the compression
\* pass of enhanced_rag_query has failed (and no other generation call has),
\* the pass has fallen back to its input - expanded_query is the original
\* query, the contexts are the complete uncompressed document list - and
\* enhanced_rag_query does not end in an exception.
C8_FallbackCompletes ==
    (/\ g_entry = "enhanced_rag_query"
     /\ g_failed # {}
     /\ g_failed \subseteq {"expand", "compress"})
    => /\ "expand" \in g_failed => g_expanded_query = g_query
       /\ ("compress" \in g_failed /\ gpc # "compress") => g_contexts = g_docs
       /\ gpc # "raised"

\* enhanced_rag_query ran with expansion enabled and generate_text returned a
\* rewrite that, stripped, is longer than 3 times the original query
RewriteTooLong ==
    /\ g_entry = "enhanced_rag_query"
    /\ g_query_expansion
    /\ g_generated # None
    /\ Len(Strip(g_generated[1])) > 3 * Len(g_query)

\* C9 (as stated): when expansion is enabled and the rewrite is longer than 3
\* times the original query, the expanded_query field of the result that
\* enhanced_rag_query returns is None.
C9_ExpandedQueryNull ==
    (RewriteTooLong /\ gpc = "returned") => g_result.expanded_query = None

\* C9 (amended): when expansion is enabled and the rewrite is longer than 3
\* times the original query, the expanded_query field of the result that
\* enhanced_rag_query returns is the original query; the field is None only
\* when expansion is disabled.
C9_ExpandedQueryIsOriginal ==
    /\ (RewriteTooLong /\ gpc = "returned") => g_result.expanded_query = Some(g_query)
    /\ (g_entry = "enhanced_rag_query" /\ gpc = "returned")
          => (g_result.expanded_query = None <=> ~g_query_expansion)

C9_Witness ==
    /\ RewriteTooLong
    /\ gpc = "returned"
    /\ g_query # <<>>
    /\ g_result.expanded_query = Some(g_query)

\* C10: when expansion is enabled and the rewrite is longer than 3 times the
\* original query, the rewrite is discarded: expanded_query is the original
\* query, and every call of the vector store's search carries the original
\* query as its query argument.
C10_OriginalQuerySent ==
    RewriteTooLong
    => /\ g_expanded_query = g_query
       /\ \A i \in 1..Len(g_search_calls) : g_search_calls[i].query = g_query

C10_Witness ==
    /\ RewriteTooLong
    /\ Len(g_search_calls) = 1
    /\ g_search_calls[1].query = g_query
    /\ g_generated[1] # g_query

\* C11: for every context _compress_context has handled, if generate_text
\* returned a text shorter than 20% of the context's document, the context is
\* in the output as it was given: same text, not marked as compressed. This
\* holds for the list under construction and for the list returned.
C11_CompressionGuardrail ==
    \A i \in 1..Len(g_compress_returns) :
        (g_compress_returns[i] # None /\ 5 * g_compress_returns[i][1] < g_docs[i].len)
        => /\ g_compressed_contexts[i] = g_docs[i]
           /\ ~g_compressed_contexts[i].compressed
           /\ (gpc \in {"generate", "returned"} => g_contexts[i] = g_docs[i])

C11_Witness ==
    /\ g_entry = "_compress_context"
    /\ gpc = "returned"
    /\ Len(g_docs) = 2
    /\ Len(g_compress_returns) = 2
    /\ g_compress_returns[1] = Some(99)
    /\ g_docs[1].len = CompressThreshold
    /\ g_contexts[1] = g_docs[1]
    /\ g_contexts[2].compressed

\* the messages of the prompt between the system message and the question
PromptWindow == SubSeq(q_prompt, 2, Len(q_prompt) - 1)

\* two messages are the same: same role, same content
SameMessage(a, b) == a.role = b.role /\ a.content = b.content

\* C12: once RAGSystem.query has built its prompt with use_history, the
\* conversation window in the prompt is exactly the most recent
\* min(n, 3) entries of the n-entry conversation history, in their order.
C12_HistoryWindow ==
    (qpc \in {"chat", "respond"} /\ q_use_history)
    => /\ Len(PromptWindow) = Min(Len(conversation_history), HistoryWindow)
       /\ \A i \in 1..Len(PromptWindow) :
             SameMessage(PromptWindow[i],
                         conversation_history[Len(conversation_history) - Len(PromptWindow) + i])

C12_Witness ==
    /\ qpc = "chat"
    /\ q_use_history
    /\ Len(conversation_history) > HistoryWindow
    /\ Len(PromptWindow) = HistoryWindow
    /\ SameMessage(PromptWindow[1], conversation_history[Len(conversation_history) - 2])
    /\ ~SameMessage(PromptWindow[1], conversation_history[1])

\* retrieve has been called, directly or by rag_query or enhanced_rag_query,
\* with a non-empty query text
RetrieveEntered ==
    /\ g_entry \in {"retrieve", "rag_query", "enhanced_rag_query"}
    /\ gpc \notin {"idle", "expand", "retrieve"}
    /\ (IF g_entry = "enhanced_rag_query" THEN g_expanded_query ELSE g_query) # <<>>

\* C13: when retrieve is called with a non-empty query on a collection that
\* holds no documents, it returns the empty list and raises no error, and the
\* calling rag_query / enhanced_rag_query does not end in an exception of the
\* retrieval.
C13_EmptyNamespaceNoError ==
    (RetrieveEntered /\ g_collection = <<>>)
    => /\ g_docs = <<>>
       /\ g_error # "TypeError"
       /\ (g_failed = {} => gpc # "raised")

\* C14: when retrieve has been called with a non-blank query and is over, it
\* has made one search call whose filter is the filter_metadata it was given,
\* and it has returned exactly what the store holds for that call, in the
\* store's order (nearest first, n_results of them when no filter is given).
C14_FilterPassedThrough ==
    (g_entry = "retrieve" /\ gpc \in {"returned", "raised"} /\ ~IsBlank(g_query))
    => /\ Len(g_search_calls) = 1
       /\ g_search_calls[1].where = g_filter_metadata
       /\ gpc = "returned"
       /\ g_docs = Search(g_search_calls[1]).results
       /\ (g_filter_metadata = None => g_docs = Take(g_collection, OrTopK(g_n_results)))

\* the lowest page number of the document
FirstPage == CHOOSE k \in {document[i][1] : i \in 1..Len(document)} :
                 \A i \in 1..Len(document) : k <= document[i][1]

\* C15: with cross-page overlap enabled the pages are taken in ascending
\* page-number order, and spans_pages is true for exactly the first chunk of
\* every page after the first: false for every chunk of the first page and
\* for every later chunk of any page.
C15_SpansPagesFirstChunk ==
    overlap_pages
    => \A j \in 1..Len(chunked_document) :
          LET c == chunked_document[j] IN
          /\ c.has_spans_pages
          /\ c.spans_pages <=> (c.chunk_index = 0 /\ c.page_number # FirstPage)
          /\ \A k \in 1..(j - 1) :
                \/ chunked_document[k].page_number < c.page_number
                \/ /\ chunked_document[k].page_number = c.page_number
                   /\ chunked_document[k].chunk_index < c.chunk_index

C15_Witness ==
    /\ dpc = "returned"
    /\ overlap_pages
    /\ Keys(document) = << 2, 1 >>
    /\ Len(chunked_document) = 3
    /\ chunked_document[1].page_number = 1 /\ ~chunked_document[1].spans_pages
    /\ chunked_document[2].page_number = 2 /\ chunked_document[2].spans_pages
    /\ chunked_document[2].text # <<>>
    /\ chunked_document[3].page_number = 2 /\ ~chunked_document[3].spans_pages

\* C16: with cross-page overlap enabled, for consecutive pages N and N+1 where
\* page N has at least chunk_overlap characters, the first chunk of page N+1
\* begins with the last chunk_overlap characters of the text of page N.
C16_FirstChunkCarriesOverlap ==
    overlap_pages
    => \A j \in 1..Len(chunked_document) :
          LET c == chunked_document[j]
              prev_text == PageText(document, c.page_number - 1)
          IN (/\ c.page_number # FirstPage
              /\ c.chunk_index = 0
              /\ Len(prev_text) >= chunk_overlap)
             => /\ Len(c.text) >= chunk_overlap
                /\ SubSeq(c.text, 1, chunk_overlap)
                     = SubSeq(prev_text, Len(prev_text) - chunk_overlap + 1, Len(prev_text))


\* C17: empty or white-space-only text yields zero chunks: chunk_text returns
\* an empty list for it, and in chunk_document / chunk_document_with_overlap
\* a page whose text is empty or white-space-only contributes no chunk.
C17_BlankYieldsZeroChunks ==
    /\ (cpc = "done" /\ IsBlank(text)) => chunks = <<>>
    /\ dpc = "returned"
       => \A p \in 1..Len(document) :
             IsBlank(document[p][2])
             => \A j \in 1..Len(chunked_document) :
                   chunked_document[j].page_number # document[p][1]


\* C18: a chunk size of 0 or below is a configuration error: a chunker never
\* runs with such a size, it ends in an error at once and produces no chunk.
C18_NonPositiveSizeRejected ==
    chunk_size <= 0 => (cpc = "error" /\ chunks = <<>>)


\* the part of a code before its first "-" or "_", and whether a region follows
BaseOf(code) == SplitFirst(SplitFirst(code, "_"), "-")
IsRegional(code) == Len(BaseOf(code)) < Len(code)

\* C19: get_closest_supported_language maps every regional variant
\* (base-REGION or base_REGION) of a supported base language to that base
\* code, returns a supported code unchanged, returns the fallback language for
\* a code with no mapping, and its result is a code that
\* is_supported_language accepts, whatever the allow-list.
C19_NearestSupported ==
    (lpc = "returned" /\ l_func = "get_closest_supported_language")
    => /\ (IsRegional(l_code) /\ BaseOf(l_code) \in supported_languages)
          => l_result = BaseOf(l_code)
       /\ l_code \in supported_languages => l_result = l_code
       /\ IsSupportedLanguage(supported_languages, l_result)

\* C20: when detect reports a code whose base language is in the supported
\* list (zh-cn for Chinese included), LanguageProcessor.detect_language
\* returns that supported base code.
C20_DetectsSupportedBase ==
    (lpc = "returned" /\ l_func = "detect_language" /\ l_code # <<>>
        /\ SplitFirst(l_code, "-") \in supported_languages)
    => l_result = SplitFirst(l_code, "-")

\* the characters of the page keyed p of the document
PageChars(p) ==
    UNION { { document[i][2][k] : k \in 1..Len(document[i][2]) } :
            i \in { n \in 1..Len(document) : document[n][1] = p } }

PlainSearchCalls ==
    IF IsBlank(g_query) THEN <<>>
    ELSE << SearchCall(g_query, OrTopK(g_n_results), g_filter_metadata) >>

\* C22: with expansion, reranking and compression all disabled,
\* enhanced_rag_query behaves as rag_query: no pass runs, the store is asked
\* with the caller's query, k and filter, generation gets the retrieved
\* documents, and the response and sources returned are those of rag_query.
C22_DisabledIsPlain ==
    (g_entry \in {"rag_query", "enhanced_rag_query"}
        /\ ~g_reranking /\ ~g_query_expansion /\ ~g_context_compression)
    => /\ gpc \notin {"expand", "rerank", "compress"}
       /\ g_expanded_query = g_query
       /\ g_generated = None
       /\ gpc \notin {"idle", "retrieve"} => g_search_calls = PlainSearchCalls
       /\ gpc = "generate" => g_contexts = g_docs
       /\ gpc = "returned"
          => LET plain == RagResult(g_query, Response(g_query, g_docs), g_docs)
                 result == g_result
             IN /\ result.query = plain.query
                /\ result.response = plain.response
                /\ result.sources = plain.sources

C22_Witness ==
    /\ g_entry = "enhanced_rag_query"
    /\ ~g_reranking /\ ~g_query_expansion /\ ~g_context_compression
    /\ g_query = << "a" >>
    /\ g_filter_metadata # None
    /\ Len(g_search_calls) = 1
    /\ g_search_calls[1].n_results = TOP_K_RESULTS
    /\ gpc \in {"raised", "returned"}

\* C23: reranking n candidates for k results returns min(k, n) of them, each
\* an input candidate taken at most once, in non-decreasing order of the
\* combined score distance - 0.1 * keyword count, so the first result has the
\* least combined score of all candidates, the first-stage top one included.
C23_RerankOrder ==
    [][gpc = "rerank"
       => LET candidates == g_docs
              reranked == g_docs'
              k == IF g_entry = "_rerank_results" THEN g_n_results
                   ELSE OrTopK(g_n_results)
          IN /\ Len(reranked) = Min(k, Len(candidates))
             /\ \A i \in 1..Len(reranked) :
                   /\ \E m \in 1..Len(candidates) : candidates[m] = reranked[i]
                   /\ \A j \in (i + 1)..Len(reranked) :
                         /\ reranked[i].id # reranked[j].id
                         /\ CombinedScore(reranked[i]) <= CombinedScore(reranked[j])
             /\ reranked # <<>>
                => \A m \in 1..Len(candidates) :
                      CombinedScore(reranked[1]) <= CombinedScore(candidates[m])]_vars

\* _rerank_results returned one of two candidates: the second, which has the
\* larger distance but a keyword hit
C23_Witness ==
    /\ g_entry = "_rerank_results"
    /\ gpc = "returned"
    /\ g_n_results = 1
    /\ Len(g_docs) = 1
    /\ g_docs[1].id = 2
    /\ g_docs[1].distance = 1
    /\ g_docs[1].hits = 1

\* the step of the compression loop that is taken calls generate_text: an
\* attempt is counted for a retry, the failure is noted, or a text came back
CompressCallMade ==
    \/ g_attempt' # g_attempt
    \/ "compress" \in g_failed'
    \/ /\ Len(g_compress_returns') > Len(g_compress_returns)
       /\ g_compress_returns'[Len(g_compress_returns')] # None

\* the context under the loop is handed on as it is
PassedThrough ==
    /\ ~CompressCallMade
    /\ g_compressed_contexts' = Append(g_compressed_contexts, g_docs[g_k])

C25_StoredUnderReportedNamespace ==
    \A i \in 1..Len(lecture_collection) :
       LET chunk == lecture_collection[i]
           result == process_pdf_results[chunk.call]
       IN /\ result.namespace # None => chunk.namespace = result.namespace[1]
          /\ \A j \in 1..Len(lecture_collection) :
                lecture_collection[j].filename # chunk.filename
                => lecture_collection[j].namespace # chunk.namespace

\* C26: conversation_history changes only at the end of a query and in
\* clear_history: a query that returns a successful result appends its user
\* message and then its assistant message, a query that returns the error
\* result leaves the history as it was, clear_history empties it.
C26_HistoryFrame ==
    [][IF qpc = "respond"
       THEN IF q_result'.kind = "error"
            THEN conversation_history' = conversation_history
            ELSE conversation_history' = conversation_history
                     \o << [role |-> "user", content |-> q_text],
                           [role |-> "assistant", content |-> q_result'.answer] >>
       ELSE \/ conversation_history' = conversation_history
            \/ /\ qpc \in {"idle", "done"}
               /\ q_budget' = q_budget
               /\ conversation_history' = <<>>]_vars

\* C27: the merged candidate list of a multi-namespace query never holds the
\* same chunk id twice, for every namespace text_query accepts ("default"
\* included, which text_query always appends to the list)
C27_NoDuplicateCandidates ==
    (q_namespaces # <<>> /\ qpc \in {"chat", "respond", "done"})
        => \A i, j \in 1..Len(relevant_docs) :
              relevant_docs[i].id = relevant_docs[j].id => i = j

\* C28: process_chunks (and process_document through it) returns True only if
\* every batch was stored: a batch the store rejected makes the result False
C28_TrueOnlyIfAllStored ==
    (ppc = "done" /\ p_result = "True")
        => /\ \A k \in 1..Len(add_documents_log) : add_documents_log[k]
           /\ Len(pipeline_collection) = Len(p_chunks)

\* C29: for every non-blank text and every size > 0, no chunk emitted by the
\* sentence strategy or the paragraph strategy is the empty string
C29_NoEmptyChunk ==
    (chunking_strategy \in {"sentence", "paragraph"} /\ ~IsBlank(text) /\ chunk_size > 0)
        => \A i \in 1..Len(chunks) : chunks[i] # <<>>

\* C30: when the caller's query is non-blank and expansion is enabled, the
\* vector store is queried, and with a non-blank query text, whatever text
\* the generation client returned for the rewrite
C30_NonBlankQuerySent ==
    (/\ g_entry = "enhanced_rag_query"
     /\ g_query_expansion
     /\ ~IsBlank(g_query)
     /\ gpc \notin {"idle", "expand", "retrieve"})
        => /\ Len(g_search_calls) = 1
           /\ ~IsBlank(g_search_calls[1].query)

====
